---- MODULE Spec2Model ----
(***************************************************************************)
(* LifeVault: the ingestion-and-retrieval core.                            *)
(*                                                                         *)
(*   backend/ai/vector_store.py   VectorStore over two ChromaDB collections*)
(*   backend/ai/query_engine.py   QueryEngine.search / _parse_intent       *)
(*   backend/main.py              ingest_file                              *)
(*   backend/ingestion/*.py       process_image / process_document         *)
(*                                                                         *)
(* A collection is a set of rows [id, embedding, metadata, document].      *)
(* Embeddings are short integer sequences (<<>> is the empty list),        *)
(* metadata is a function from keys to strings (NONE stands for Python's   *)
(* None), a text is a record that keeps its origin and its length, so that *)
(* slicing ([:5000], [:300]) and truthiness ("" is falsy) are computed.    *)
(* Scores are fixed-point integers in units of 10^-6.                      *)
(***************************************************************************)
EXTENDS Integers, Sequences, FiniteSets, TLC

VARIABLES
    image_collection,   \* VectorStore.image_collection: set of rows
    doc_collection,     \* VectorStore.doc_collection: set of rows
    disk,               \* file system: absolute path -> content version (0: no file)
    last,               \* the last call and what it returned
    calls,              \* number of calls made so far (bounded)
    tree,               \* entries (files and directories) under the watched root
    pending,            \* paths the startup scan has still to visit / queued watch events
    delivered,          \* invocations of the ingestion callback, in order
    running,            \* state of the scan loop / of the observer thread
    inv                 \* concurrent ingest_file invocations: their locals and position

vars == <<image_collection, doc_collection, disk, last, calls,
          tree, pending, delivered, running, inv>>

\* The file watcher and the concurrent invocations, for the steps that do not
\* involve them.
watcher == <<tree, pending, delivered, running, inv>>

NoWatcher ==
    /\ tree = {}
    /\ pending = <<>>
    /\ delivered = <<>>
    /\ running = "idle"
    /\ inv = <<>>

(***************************************************************************)
(* Bounds of the model.                                                    *)
(***************************************************************************)
MaxCalls == 2       \* VectorStore API calls in one run of SpecStore
MaxVersion == 2     \* content versions a file goes through
MaxTopK == 2        \* largest top_k of a search
MaxEvents == 3      \* file system events in one run of SpecWatch

(***************************************************************************)
(* Program constants.                                                      *)
(***************************************************************************)
DOC_TEXT_LIMIT == 5000      \* vector_store.py:93   text_content[:5000]
PREVIEW_LIMIT == 300        \* vector_store.py:197  documents[i][:300]
MAX_TEXT_LENGTH == 3000     \* doc_processor.py:17
MIN_TEXT_LENGTH == 10       \* doc_processor.py:48  len(text.strip()) < 10

IMAGE_EXTENSIONS == {".jpg", ".jpeg", ".png", ".webp", ".bmp"}
DOCUMENT_EXTENSIONS == {".pdf", ".txt", ".docx", ".md"}
ALL_EXTENSIONS == IMAGE_EXTENSIONS \cup DOCUMENT_EXTENSIONS

NONE == "<None>"            \* Python's None as a metadata value

Min(a, b) == IF a <= b THEN a ELSE b
Max(a, b) == IF a >= b THEN a ELSE b

(***************************************************************************)
(* Paths.  AbsPaths are resolved absolute paths; RawPaths adds a relative  *)
(* spelling of one of them.                                                *)
(***************************************************************************)
AbsPaths == {"/w/a.JPG", "/w/b.png", "/w/c.txt", "/w/d.pdf", "/w/e.xyz"}
RawPaths == AbsPaths \cup {"a.JPG"}

\* Path(file_path).resolve(): the absolute path a spelling stands for.
Resolve(p) == IF p = "a.JPG" THEN "/w/a.JPG" ELSE p

\* Path(file_path).suffix, as written.
Suffix(p) ==
    CASE p = "/w/a.JPG" -> ".JPG"
      [] p = "a.JPG"    -> ".JPG"
      [] p = "/w/b.png" -> ".png"
      [] p = "/w/c.txt" -> ".txt"
      [] p = "/w/d.pdf" -> ".pdf"
      [] OTHER          -> ".xyz"

\* str.lower() on a suffix.
Lower(s) == IF s = ".JPG" THEN ".jpg" ELSE s

\* Path(file_path).name
FileName(p) ==
    CASE Resolve(p) = "/w/a.JPG" -> "a.JPG"
      [] Resolve(p) = "/w/b.png" -> "b.png"
      [] Resolve(p) = "/w/c.txt" -> "c.txt"
      [] Resolve(p) = "/w/d.pdf" -> "d.pdf"
      [] OTHER                   -> "e.xyz"

\* A plausible slip: the id made from the folder of the path.
FileId_OfFolder(file_path) == <<"md5", "/w">>

\* _file_id: MD5 of the path string as given (no resolution here); distinct
\* strings give distinct ids.
FileId(file_path) == <<"md5", file_path>>

(***************************************************************************)
(* Texts.                                                                  *)
(***************************************************************************)
EmptyText == [kind |-> "empty", of |-> "", ver |-> 0, len |-> 0]

\* truthiness of a str
Truthy(text) == text.len > 0

\* A plausible slip: the slice left out.
Prefix_Whole(text, n) == text

\* text[:n]
Prefix(text, n) ==
    IF text.len <= n THEN text ELSE [text EXCEPT !.len = n]

\* f"Image: {name}" / f"Document: {name}": never empty.
Placeholder(label, name) ==
    [kind |-> "placeholder", of |-> label \o name, ver |-> 0,
     len |-> Len(label) + Len(name)]

(***************************************************************************)
(* Metadata.                                                               *)
(***************************************************************************)
\* metadata.get('file_name', '')
MetaGet(metadata, key, default) ==
    IF key \in DOMAIN metadata THEN metadata[key] ELSE default

\* {k: v for k, v in metadata.items() if v is not None and v != ""}
CleanMeta_KeepsEmpty(metadata) ==
    [k \in {x \in DOMAIN metadata : metadata[x] /= NONE} |-> metadata[k]]

CleanMeta(metadata) ==
    [k \in {x \in DOMAIN metadata : metadata[x] /= NONE /\ metadata[x] /= ""}
        |-> metadata[k]]

(***************************************************************************)
(* ChromaDB collection operations, as the store calls them.                *)
(***************************************************************************)
RowsOf(coll, id) == {r \in coll : r.id = id}

\* collection.count()
Count(coll) == Cardinality(coll)

\* A plausible slip: an upsert that updates the row in place, key by key, so
\* that a metadata key of the old row the new metadata does not name stays.
CollectionUpsert_KeepsOldKeys(coll, id, embedding, metadata, document) ==
    LET old == RowsOf(coll, id)
        was == IF old = {} THEN metadata ELSE (CHOOSE r \in old : TRUE).metadata
    IN  (coll \ old) \cup
            {[id |-> id, embedding |-> embedding,
              metadata |-> [k \in DOMAIN was \cup DOMAIN metadata |->
                              IF k \in DOMAIN metadata THEN metadata[k] ELSE was[k]],
              document |-> document]}

\* A plausible slip: the collection is rewritten with the new row alone.
CollectionUpsert_DropsOthers(coll, id, embedding, metadata, document) ==
    {[id |-> id, embedding |-> embedding, metadata |-> metadata,
      document |-> document]}

\* collection.upsert(ids=[id], ...): insert, or replace the row of that id.
CollectionUpsert(coll, id, embedding, metadata, document) ==
    (coll \ RowsOf(coll, id)) \cup
        {[id |-> id, embedding |-> embedding, metadata |-> metadata,
          document |-> document]}

\* collection.get(ids=[id])["ids"] is non-empty
CollectionHas(coll, id) == RowsOf(coll, id) /= {}

(***************************************************************************)
(* VectorStore (backend/ai/vector_store.py).  Each operation takes the     *)
(* collection it works on and returns its new contents.                    *)
(***************************************************************************)
\* A plausible slip: collection.add, which leaves the row of an existing id.
UpsertImage_KeepsOld(coll, file_path, embedding, metadata, text_content) ==
    IF CollectionHas(coll, FileId(file_path))
    THEN coll
    ELSE CollectionUpsert(coll, FileId(file_path), embedding, CleanMeta(metadata),
                          IF Truthy(text_content)
                          THEN text_content
                          ELSE Placeholder("Image: ", MetaGet(metadata, "file_name", "")))

UpsertImage(coll, file_path, embedding, metadata, text_content) ==
    LET doc_id == FileId(file_path)
        clean_meta == CleanMeta(metadata)
        document == IF Truthy(text_content)
                    THEN text_content
                    ELSE Placeholder("Image: ", MetaGet(metadata, "file_name", ""))
    IN  CollectionUpsert(coll, doc_id, embedding, clean_meta, document)

\* A plausible slip: the metadata written first, the vector left for later.
UpsertDocument_MetadataOnly(coll, file_path, embedding, metadata, text_content) ==
    CollectionUpsert(coll, FileId(file_path), <<>>, CleanMeta(metadata),
                     Prefix(text_content, DOC_TEXT_LIMIT))

UpsertDocument(coll, file_path, embedding, metadata, text_content) ==
    LET doc_id == FileId(file_path)
        clean_meta == CleanMeta(metadata)
        cut == Prefix(text_content, DOC_TEXT_LIMIT)
        document == IF Truthy(cut)
                    THEN cut
                    ELSE Placeholder("Document: ", MetaGet(metadata, "file_name", ""))
    IN  CollectionUpsert(coll, doc_id, embedding, clean_meta, document)

\* A plausible slip: a lookup that raises is taken as "already there".
IsFileIndexed_ErrorMeansIndexed(images, docs, file_path, imgGetRaises, docGetRaises) ==
    \/ imgGetRaises
    \/ docGetRaises
    \/ CollectionHas(images, FileId(file_path))
    \/ CollectionHas(docs, FileId(file_path))

\* is_file_indexed: each lookup is wrapped in try/except; a lookup that raises
\* is passed over and the next one is tried.
IsFileIndexed(images, docs, file_path, imgGetRaises, docGetRaises) ==
    LET doc_id == FileId(file_path)
    IN  IF ~imgGetRaises /\ CollectionHas(images, doc_id) THEN TRUE
        ELSE IF ~docGetRaises /\ CollectionHas(docs, doc_id) THEN TRUE
        ELSE FALSE

\* get_stats
GetStats(images, docs) ==
    [total_images |-> Count(images),
     total_documents |-> Count(docs),
     total_files |-> Count(images) + Count(docs)]

(***************************************************************************)
(* Similarity search.  A query embedding is the text it was made from and  *)
(* the space it lives in; geom gives the cosine distance (in 10^-6) from   *)
(* the query text's embedding to every row, and another text lands         *)
(* elsewhere (OtherDistance).                                              *)
(***************************************************************************)
Scale == 10^6

DistSet == {100000, 600000, 1200000}      \* scores 0.9, 0.4 and 0 (clamped)

OtherDistance(d) ==
    CASE d = 100000 -> 600000
      [] d = 600000 -> 1200000
      [] OTHER      -> 100000

CosineDistance(query_embedding, row, geom) ==
    IF query_embedding.text = geom.text
    THEN geom.d[row.id]
    ELSE OtherDistance(geom.d[row.id])

\* the order in which the index breaks ties between equidistant rows
IdRank(id) ==
    CASE id = FileId("/w/a.JPG") -> 1
      [] id = FileId("/w/b.png") -> 2
      [] id = FileId("/w/c.txt") -> 3
      [] id = FileId("/w/d.pdf") -> 4
      [] OTHER                   -> 5

Hit(row, distance) ==
    [id |-> row.id, metadata |-> row.metadata, document |-> row.document,
     distance |-> distance]

Closer(h1, h2) ==
    \/ h1.distance < h2.distance
    \/ h1.distance = h2.distance /\ IdRank(h1.id) < IdRank(h2.id)

RECURSIVE NearestFirst(_)
NearestFirst(hits) ==
    IF hits = {} THEN <<>>
    ELSE LET h == CHOOSE x \in hits : \A y \in hits \ {x} : Closer(x, y)
         IN  <<h>> \o NearestFirst(hits \ {h})

\* collection.query(query_embeddings=[e], n_results=n): the n nearest rows,
\* nearest first; n <= 0 is rejected with an exception.
CollectionQuery(coll, query_embedding, n_results, geom) ==
    IF n_results <= 0
    THEN [raised |-> TRUE]
    ELSE LET hits == {Hit(r, CosineDistance(query_embedding, r, geom)) : r \in coll}
             sorted == NearestFirst(hits)
         IN  [raised |-> FALSE,
              value |-> SubSeq(sorted, 1, Min(n_results, Len(sorted)))]

\* Python's round(x, n) on a non-negative value: to the nearest multiple of
\* unit, an exact half going to the even neighbour.
RoundTo(x, unit) ==
    LET q == x \div unit
        r == x % unit
    IN  IF 2 * r < unit THEN q
        ELSE IF 2 * r > unit THEN q + 1
        ELSE IF q % 2 = 0 THEN q ELSE q + 1

\* list.sort(key=lambda x: x["score"], reverse=True): stable.
RECURSIVE InsertByScore(_, _)
InsertByScore(sorted, x) ==
    IF sorted = <<>> THEN <<x>>
    ELSE IF Head(sorted).score >= x.score
         THEN <<Head(sorted)>> \o InsertByScore(Tail(sorted), x)
         ELSE <<x>> \o sorted

RECURSIVE SortByScoreDesc(_)
SortByScoreDesc(results) ==
    IF results = <<>> THEN <<>>
    ELSE InsertByScore(SortByScoreDesc(SubSeq(results, 1, Len(results) - 1)),
                       results[Len(results)])

\* One formatted result; score in 10^-4, match_percentage in 10^-1 percent.
\* score = max(0.0, 1.0 - distance); both fields are rounded from it.
FormatHit_NoClamp(h) ==
    LET score == Scale - h.distance
    IN  [id |-> h.id,
         score |-> IF score >= 0 THEN RoundTo(score, 100) ELSE 0 - RoundTo(0 - score, 100),
         match_percentage |->
             IF score >= 0 THEN RoundTo(score, 1000) ELSE 0 - RoundTo(0 - score, 1000),
         metadata |-> h.metadata,
         text_preview |-> IF Truthy(h.document)
                          THEN Prefix(h.document, PREVIEW_LIMIT) ELSE EmptyText]

FormatHit(h) ==
    LET score == Max(0, Scale - h.distance)
    IN  [id |-> h.id,
         score |-> RoundTo(score, 100),
         match_percentage |-> RoundTo(score, 1000),
         metadata |-> h.metadata,
         text_preview |-> IF Truthy(h.document)
                          THEN Prefix(h.document, PREVIEW_LIMIT) ELSE EmptyText]

\* _format_results
FormatResults(raw_results) ==
    IF raw_results = <<>> THEN <<>>
    ELSE SortByScoreDesc([i \in 1..Len(raw_results) |-> FormatHit(raw_results[i])])

\* min(top_k, count() or 1)
NResults_NoFloor(coll, top_k) == Min(top_k, Count(coll))

NResults(coll, top_k) ==
    Min(top_k, IF Count(coll) = 0 THEN 1 ELSE Count(coll))

\* search_images / search_documents: an exception of the query propagates.
SearchCollection(coll, query_embedding, top_k, geom) ==
    LET n == NResults(coll, top_k)
        results == CollectionQuery(coll, query_embedding, n, geom)
    IN  IF results.raised
        THEN [raised |-> TRUE, n_results |-> n]
        ELSE [raised |-> FALSE, n_results |-> n,
              value |-> FormatResults(results.value)]

(***************************************************************************)
(* QueryEngine (backend/ai/query_engine.py).                               *)
(*                                                                         *)
(* gemini is GeminiOff (self.gemini_model is None) or the reply the model  *)
(* gives to generate_content: the call raises, or response.text is None    *)
(* (has_text is FALSE), or it is a sequence of lines.  A line is a code    *)
(* fence, a JSON value or junk.                                            *)
(***************************************************************************)
EmptyDict == [k \in {} |-> ""]
GeminiOff == [configured |-> FALSE, raises |-> FALSE, has_text |-> FALSE, text |-> <<>>]
GeminiRaises == [configured |-> TRUE, raises |-> TRUE, has_text |-> FALSE, text |-> <<>>]
GeminiNoText == [configured |-> TRUE, raises |-> FALSE, has_text |-> FALSE, text |-> <<>>]
GeminiText(lines) == [configured |-> TRUE, raises |-> FALSE, has_text |-> TRUE, text |-> lines]

FenceOpen == [t |-> "fence_open"]        \* ```json
Fence == [t |-> "fence"]                 \* ```
Junk == [t |-> "junk"]                   \* not JSON
JsonLine(v) == [t |-> "json", value |-> v]

JsonObject(fields) == [type |-> "object", fields |-> fields]
JsonArray == [type |-> "array"]
JsonNull == [type |-> "null"]

ObjImage == JsonObject([k \in {"refined_query", "file_type"} |->
                IF k = "refined_query" THEN "kittens" ELSE "image"])
ObjDocument == JsonObject([k \in {"file_type"} |-> "document"])
ObjAny == JsonObject([k \in {"refined_query", "file_type"} |->
                IF k = "refined_query" THEN "" ELSE "any"])

\* raw_text.startswith("```") / raw_text.endswith("```")
StartsWithFence(lines) == Len(lines) > 0 /\ Head(lines).t \in {"fence_open", "fence"}
EndsWithFence(lines) == Len(lines) > 0 /\ lines[Len(lines)].t = "fence"

\* raw_text.split("\n", 1)[-1]: the text after the first line; a text of one
\* line is left as it is.
AfterFirstLine(lines) == IF Len(lines) >= 2 THEN Tail(lines) ELSE lines

\* raw_text[:-3] on a text that ends with a fence
WithoutLastFence(lines) == SubSeq(lines, 1, Len(lines) - 1)

\* the fence cleaning of _parse_intent
CleanFences(lines) ==
    IF StartsWithFence(lines)
    THEN LET rest == AfterFirstLine(lines)
         IN  IF EndsWithFence(rest) THEN WithoutLastFence(rest) ELSE rest
    ELSE lines

\* json.loads: one JSON value and nothing else, or an exception.
JsonLoads(lines) ==
    IF Len(lines) = 1 /\ lines[1].t = "json"
    THEN [raised |-> FALSE, value |-> lines[1].value]
    ELSE [raised |-> TRUE]

\* What the except branch of _parse_intent returns.
ParseFailure_KeepsScope(query) == <<[k \in {"file_type"} |-> "image"], query>>

ParseFailure(query) == <<EmptyDict, query>>

\* _parse_intent: (intent, refined); every exception inside the try block
\* (the call, .strip() on None, json.loads, .get on a non-dict) ends in the
\* except branch.
ParseIntent(reply, query) ==
    IF reply.raises THEN ParseFailure(query)
    ELSE IF ~reply.has_text THEN ParseFailure(query)
    ELSE LET loaded == JsonLoads(CleanFences(reply.text))
         IN  IF loaded.raised THEN ParseFailure(query)
             ELSE IF loaded.value.type /= "object" THEN ParseFailure(query)
             ELSE <<loaded.value.fields,
                    MetaGet(loaded.value.fields, "refined_query", query)>>

\* "if not refined_query"
Falsy(str) == str = "" \/ str = NONE

\* Step 2 of search: the search type after the intent is looked at.
EffectiveSearchType(intent, search_type) ==
    IF MetaGet(intent, "file_type", NONE) = "image" THEN "images"
    ELSE IF MetaGet(intent, "file_type", NONE) = "document" THEN "documents"
    ELSE search_type

\* One modality of step 3, inside its try/except: the embedding call or the
\* store search may raise; the exception is logged and nothing is added.
Modality_Uncaught(coll, space, text, top_k, raises, geom) ==
    IF raises THEN [raised |-> TRUE, n_results |-> 0, results |-> <<>>]
    ELSE LET found == SearchCollection(coll, [space |-> space, text |-> text],
                                       top_k, geom)
         IN  [raised |-> found.raised, n_results |-> found.n_results,
              results |-> IF found.raised THEN <<>> ELSE found.value]

Modality(coll, space, text, top_k, raises, geom) ==
    IF raises THEN [raised |-> FALSE, n_results |-> 0, results |-> <<>>]
    ELSE LET found == SearchCollection(coll, [space |-> space, text |-> text],
                                       top_k, geom)
         IN  [raised |-> FALSE, n_results |-> found.n_results,
              results |-> IF found.raised THEN <<>> ELSE found.value]

\* results[:top_k]
Truncate_Off(results, top_k) == results

Truncate(results, top_k) == SubSeq(results, 1, Min(top_k, Len(results)))

\* Step 4: results.sort(key=score, reverse=True)
MergeSort_Unsorted(results) == results

MergeSort(results) == SortByScoreDesc(results)

NotSearched == [raised |-> FALSE, n_results |-> 0, results |-> <<>>]

\* QueryEngine.search.  imgRaises / docRaises say whether that modality's
\* embedding call or store search raises.  Beside the response, the value
\* records which collections were searched and how many neighbours were
\* asked of each.
Search(images, docs, query, top_k, search_type, gemini, imgRaises, docRaises, geom) ==
    LET parsed == IF gemini.configured THEN ParseIntent(gemini, query)
                  ELSE <<EmptyDict, query>>
        intent == parsed[1]
        refined_query == IF gemini.configured /\ Falsy(parsed[2]) THEN query
                         ELSE parsed[2]
        effective == EffectiveSearchType(intent, search_type)
        img == IF effective \in {"all", "images"}
               THEN Modality(images, "clip", refined_query, top_k, imgRaises, geom)
               ELSE NotSearched
        doc == IF effective \in {"all", "documents"}
               THEN Modality(docs, "sentence", refined_query, top_k, docRaises, geom)
               ELSE NotSearched
        results == Truncate(MergeSort(img.results \o doc.results), top_k)
    IN  IF img.raised \/ doc.raised
        THEN [raised |-> TRUE]
        ELSE [raised |-> FALSE,
              response |-> [query |-> query,
                            refined_query |-> refined_query,
                            intent |-> intent,
                            results |-> results,
                            total_results |-> Len(results)],
              searched |-> effective,
              image_results |-> img.results,
              document_results |-> doc.results]

(***************************************************************************)
(* Ingestion (backend/main.py, backend/ingestion/*.py).                    *)
(*                                                                         *)
(* run is what the collaborators do during one ingestion: whether EXIF     *)
(* reading, the embedding model, OCR and the tagger succeed, and how much  *)
(* text the document extractor finds.                                      *)
(***************************************************************************)
Stamps == <<"t1", "t2", "t3", "t4", "t5">>

\* dict.update
Update(metadata, more) ==
    [k \in DOMAIN metadata \cup DOMAIN more |->
        IF k \in DOMAIN more THEN more[k] ELSE metadata[k]]

\* extract_file_metadata, for a file that exists (p.stat() raises otherwise)
ExtractFileMetadata(file_path, version) ==
    [k \in {"file_name", "file_path", "file_extension", "modified_date", "file_type"} |->
        CASE k = "file_name" -> FileName(file_path)
          [] k = "file_path" -> Resolve(file_path)
          [] k = "file_extension" -> Lower(Suffix(file_path))
          [] k = "modified_date" -> Stamps[version]
          [] OTHER -> IF Lower(Suffix(file_path)) \in IMAGE_EXTENSIONS
                      THEN "image" ELSE "document"]

\* extract_exif_metadata: {} on any failure; a tag that is present is stored
\* as its string, which may be empty.
ExtractExifMetadata(run) ==
    IF run.exif
    THEN [k \in {"camera_make", "camera_model"} |->
            IF k = "camera_make" THEN "Canon" ELSE ""]
    ELSE EmptyDict

\* the embedding of a file's content: a non-empty vector
EmbeddingOf(file_path, version) == <<IdRank(FileId(file_path)), version>>

\* A plausible slip: OCR inside the try block of the embedding, so that its
\* failure returns the empty result.
ProcessImage_OcrAborts(file_path, version, run) ==
    IF ~run.embeds \/ ~run.ocr
    THEN [embedding |-> <<>>, text_content |-> EmptyText]
    ELSE [embedding |-> <<IdRank(FileId(file_path)), version>>,
          text_content |-> [kind |-> "ocr", of |-> file_path, ver |-> version,
                            len |-> 12]]

\* process_image: no embedding when the CLIP step raises; OCR is best effort.
ProcessImage(file_path, version, run) ==
    IF ~run.embeds
    THEN [embedding |-> <<>>, text_content |-> EmptyText]
    ELSE [embedding |-> EmbeddingOf(file_path, version),
          text_content |-> IF run.ocr
                           THEN [kind |-> "ocr", of |-> file_path, ver |-> version,
                                 len |-> 12]
                           ELSE EmptyText]

\* auto_tag_image: (tag, score) pairs, [] on failure
AutoTagImage(run) ==
    IF run.tags THEN <<<<"cat", "0.9">>, <<"pet", "0.1">>>> ELSE <<>>

\* metadata["auto_tags"] / ["top_tag"] / ["top_tag_score"]
TagFields(tags) ==
    [k \in {"auto_tags", "top_tag", "top_tag_score"} |->
        CASE k = "auto_tags" -> "cat, pet"
          [] k = "top_tag" -> tags[1][1]
          [] OTHER -> tags[1][2]]

\* process_document: the text is extracted by suffix; fewer than
\* MIN_TEXT_LENGTH characters, or an exception of the model, leave the
\* embedding empty.
ProcessDocument(file_path, version, run) ==
    LET ext == Lower(Suffix(file_path))
        text == [kind |-> "doc", of |-> file_path, ver |-> version,
                 len |-> run.text_len]
    IN  IF ext \notin {".pdf", ".docx", ".txt", ".md"}
        THEN [embedding |-> <<>>, text_content |-> EmptyText]
        ELSE IF run.text_len < MIN_TEXT_LENGTH
        THEN [embedding |-> <<>>, text_content |-> EmptyText]
        ELSE IF ~run.embeds
        THEN [embedding |-> <<>>, text_content |-> Prefix(text, MAX_TEXT_LENGTH)]
        ELSE [embedding |-> EmbeddingOf(file_path, version),
              text_content |-> Prefix(text, MAX_TEXT_LENGTH)]

\* if not result["embedding"]
EmbeddingMissing_Never(result) == FALSE

EmbeddingMissing(result) == result.embedding = <<>>

\* What one call of ingest_file does: the collections it leaves, how it
\* ended, the number of upsert calls it made, and what the embedding step
\* gave it ("not requested", "none" or "produced").
Ingested(images, docs, outcome, upserts, embedding) ==
    [images |-> images, docs |-> docs, outcome |-> outcome, upserts |-> upserts,
     embedding |-> embedding]

Produced(result) == IF result.embedding = <<>> THEN "none" ELSE "produced"

\* Neither the image nor the document branch is taken: ingest_file goes on
\* to its last log line and returns.
Unsupported_Raises(images, docs) ==
    Ingested(images, docs, "raised", 0, "not requested")

Unsupported(images, docs) ==
    Ingested(images, docs, "unsupported", 0, "not requested")

\* ingest_file, past the dedup check, on a file the disk holds at `version`.
IngestNew(images, docs, file_path, version, run) ==
    LET ext == Lower(Suffix(file_path))
        metadata == ExtractFileMetadata(file_path, version)
    IN  IF ext \in IMAGE_EXTENSIONS
        THEN LET with_exif == Update(metadata, ExtractExifMetadata(run))
                 result == ProcessImage(file_path, version, run)
                 tags == AutoTagImage(run)
                 tagged == IF tags /= <<>> THEN Update(with_exif, TagFields(tags))
                           ELSE with_exif
             IN  IF EmbeddingMissing(result)
                 THEN Ingested(images, docs, "no_embedding", 0, Produced(result))
                 ELSE Ingested(UpsertImage(images, file_path, result.embedding,
                                           tagged, result.text_content),
                               docs, "indexed", 1, Produced(result))
        ELSE IF ext \in DOCUMENT_EXTENSIONS
        THEN LET result == ProcessDocument(file_path, version, run)
             IN  IF EmbeddingMissing(result)
                 THEN Ingested(images, docs, "no_embedding", 0, Produced(result))
                 ELSE Ingested(images,
                               UpsertDocument(docs, file_path, result.embedding,
                                              metadata, result.text_content),
                               "indexed", 1, Produced(result))
        ELSE Unsupported(images, docs)

\* ingest_file: resolve the path, skip a file is_file_indexed reports, fail
\* on a file that is not there (extract_file_metadata raises), else process.
IngestFile(images, docs, dsk, path, imgGetRaises, docGetRaises, run) ==
    LET file_path == Resolve(path)
    IN  IF IsFileIndexed(images, docs, file_path, imgGetRaises, docGetRaises)
        THEN Ingested(images, docs, "skipped", 0, "not requested")
        ELSE IF dsk[file_path] = 0
        THEN Ingested(images, docs, "raised", 0, "not requested")
        ELSE IngestNew(images, docs, file_path, dsk[file_path], run)

(***************************************************************************)
(* SpecStore: callers of the VectorStore API.                              *)
(***************************************************************************)
CallerText(kind, n) == [kind |-> kind, of |-> "caller", ver |-> 0, len |-> n]

MetaA == [k \in {"file_name", "camera_make"} |->
            IF k = "file_name" THEN "one.jpg" ELSE "Canon"]
MetaB == [k \in {"file_name", "camera_make", "top_tag"} |->
            CASE k = "file_name" -> "two.jpg"
              [] k = "camera_make" -> ""
              [] OTHER -> "cat"]
MetaC == [k \in {"file_name", "top_tag"} |->
            IF k = "file_name" THEN "" ELSE NONE]

\* What a caller may hand to upsert_image / upsert_document.
Payloads ==
    { [embedding |-> <<1>>, metadata |-> MetaA, text |-> CallerText("short", 12)],
      [embedding |-> <<2>>, metadata |-> MetaB, text |-> EmptyText],
      [embedding |-> <<1>>, metadata |-> MetaC, text |-> EmptyText],
      [embedding |-> <<2>>, metadata |-> MetaA, text |-> CallerText("long", 6000)] }

StorePaths == {"/w/a.JPG", "/w/c.txt"}

NoCall == [op |-> "none"]

InitStore ==
    /\ image_collection = {}
    /\ doc_collection = {}
    /\ disk = [p \in AbsPaths |-> 0]
    /\ last = NoCall
    /\ calls = 0
    /\ NoWatcher

UpsertImageCall ==
    /\ calls < MaxCalls
    /\ \E p \in StorePaths, P \in Payloads :
        /\ image_collection' =
              UpsertImage(image_collection, p, P.embedding, P.metadata, P.text)
        /\ last' = [op |-> "upsert_image", path |-> p, payload |-> P,
                    had |-> RowsOf(image_collection, FileId(p))]
    /\ calls' = calls + 1
    /\ UNCHANGED <<doc_collection, disk, watcher>>

UpsertDocumentCall ==
    /\ calls < MaxCalls
    /\ \E p \in StorePaths, P \in Payloads :
        /\ doc_collection' =
              UpsertDocument(doc_collection, p, P.embedding, P.metadata, P.text)
        /\ last' = [op |-> "upsert_document", path |-> p, payload |-> P,
                    had |-> RowsOf(doc_collection, FileId(p))]
    /\ calls' = calls + 1
    /\ UNCHANGED <<image_collection, disk, watcher>>

IsFileIndexedCall ==
    /\ \E p \in StorePaths \cup {"/w/b.png"}, ir \in BOOLEAN, dr \in BOOLEAN :
        last' = [op |-> "is_file_indexed", path |-> p,
                 imgGetRaises |-> ir, docGetRaises |-> dr,
                 result |-> IsFileIndexed(image_collection, doc_collection, p, ir, dr)]
    /\ UNCHANGED <<image_collection, doc_collection, disk, calls, watcher>>

GetStatsCall ==
    /\ last' = [op |-> "get_stats",
                result |-> GetStats(image_collection, doc_collection)]
    /\ UNCHANGED <<image_collection, doc_collection, disk, calls, watcher>>

NextStore ==
    \/ UpsertImageCall
    \/ UpsertDocumentCall
    \/ IsFileIndexedCall
    \/ GetStatsCall

SpecStore == InitStore /\ [][NextStore]_vars

(***************************************************************************)
(* SpecSearch: one query against an index that holds up to two images and *)
(* two documents.  A query reads the index and leaves it as it is, so a    *)
(* run is the index, one call and its result.                              *)
(***************************************************************************)
OneImage == UpsertImage({}, "/w/a.JPG", <<1>>, MetaA, CallerText("ocr", 12))
TwoImages == UpsertImage(OneImage, "/w/b.png", <<2>>, MetaB, EmptyText)
OneDocument == UpsertDocument({}, "/w/c.txt", <<3>>, MetaA, CallerText("doc", 400))
TwoDocuments == UpsertDocument(OneDocument, "/w/d.pdf", <<4>>, MetaC, CallerText("doc", 6000))

SearchTypes == {"all", "images", "documents"}

GeminiBehaviours ==
    { GeminiOff, GeminiRaises, GeminiNoText,
      GeminiText(<<JsonLine(ObjImage)>>),
      GeminiText(<<JsonLine(ObjDocument)>>),
      GeminiText(<<JsonLine(ObjAny)>>),
      GeminiText(<<JsonLine(JsonArray)>>),
      GeminiText(<<JsonLine(JsonNull)>>),
      GeminiText(<<FenceOpen, JsonLine(ObjImage), Fence>>),
      GeminiText(<<FenceOpen, JsonLine(ObjDocument)>>),
      GeminiText(<<JsonLine(ObjImage), Fence>>),
      GeminiText(<<Junk>>),
      GeminiText(<<Fence>>) }

IdsOf(coll) == {r.id : r \in coll}

Geometries(query) ==
    {[text |-> query, d |-> f] :
        f \in [IdsOf(image_collection) \cup IdsOf(doc_collection) -> DistSet]}

InitSearch ==
    /\ image_collection \in {{}, OneImage, TwoImages}
    /\ doc_collection \in {{}, OneDocument, TwoDocuments}
    /\ disk = [p \in AbsPaths |-> 0]
    /\ last = NoCall
    /\ calls = 0
    /\ NoWatcher

SearchCall ==
    /\ last = NoCall
    /\ \E top_k \in 0..MaxTopK, search_type \in SearchTypes,
          gemini \in GeminiBehaviours, ir \in BOOLEAN, dr \in BOOLEAN,
          geom \in Geometries("cats") :
        last' = [op |-> "search", query |-> "cats", top_k |-> top_k,
                 search_type |-> search_type, gemini |-> gemini,
                 imgRaises |-> ir, docRaises |-> dr, geom |-> geom,
                 out |-> Search(image_collection, doc_collection, "cats", top_k,
                                search_type, gemini, ir, dr, geom)]
    /\ UNCHANGED <<image_collection, doc_collection, disk, calls, watcher>>

SearchImagesCall ==
    /\ last = NoCall
    /\ \E top_k \in 0..MaxTopK, geom \in Geometries("cats") :
        last' = [op |-> "search_images", top_k |-> top_k, geom |-> geom,
                 count |-> Count(image_collection),
                 out |-> SearchCollection(image_collection,
                            [space |-> "clip", text |-> "cats"], top_k, geom)]
    /\ UNCHANGED <<image_collection, doc_collection, disk, calls, watcher>>

SearchDocumentsCall ==
    /\ last = NoCall
    /\ \E top_k \in 0..MaxTopK, geom \in Geometries("cats") :
        last' = [op |-> "search_documents", top_k |-> top_k, geom |-> geom,
                 count |-> Count(doc_collection),
                 out |-> SearchCollection(doc_collection,
                            [space |-> "sentence", text |-> "cats"], top_k, geom)]
    /\ UNCHANGED <<image_collection, doc_collection, disk, calls, watcher>>

NextSearch ==
    \/ SearchCall
    \/ SearchImagesCall
    \/ SearchDocumentsCall

SpecSearch == InitSearch /\ [][NextSearch]_vars

(***************************************************************************)
(* SpecFormat: _format_results on what a collection can report: one or two *)
(* hits, each at a distance of the grid.  The grid holds the ends of the   *)
(* cosine range [0, 2], a distance that floating-point error has pushed    *)
(* just below 0, distances on both sides of the rounding steps, and none   *)
(* where the binary representation of a float decides an exact half.       *)
(***************************************************************************)
DistGrid == {0 - 1, 0, 1, 49, 460, 501, 100000, 333333, 600000, 876550,
             999999, 1000000, 1000001, 1200000, 2000000}

RawHit(path, distance) ==
    [id |-> FileId(path), metadata |-> CleanMeta(MetaA),
     document |-> CallerText("doc", 400), distance |-> distance]

RawResults ==
    {<<RawHit("/w/a.JPG", d)>> : d \in DistGrid}
    \cup {<<RawHit("/w/a.JPG", d1), RawHit("/w/b.png", d2)>> :
            d1 \in DistGrid, d2 \in DistGrid}

FormatResultsCall ==
    /\ last = NoCall
    /\ \E raw \in RawResults :
        last' = [op |-> "format_results", raw |-> raw, out |-> FormatResults(raw)]
    /\ UNCHANGED <<image_collection, doc_collection, disk, calls, watcher>>

SpecFormat == InitStore /\ [][FormatResultsCall]_vars

(***************************************************************************)
(* Spec: the ingestion pipeline.  Files under the watched folder are       *)
(* created and modified; ingest_file is called for a path (by a watcher    *)
(* event, the startup scan or the manual endpoint); the process restarts   *)
(* on the persisted index.                                                 *)
(***************************************************************************)
WatchedPaths == {"/w/a.JPG", "/w/c.txt", "/w/e.xyz"}
IngestPaths == WatchedPaths \cup {"a.JPG"}

ImageRuns ==
    {[exif |-> x, embeds |-> e, ocr |-> o, tags |-> t, text_len |-> 0] :
        x \in BOOLEAN, e \in BOOLEAN, o \in BOOLEAN, t \in BOOLEAN}

DocumentRuns ==
    {[exif |-> FALSE, embeds |-> e, ocr |-> FALSE, tags |-> FALSE, text_len |-> n] :
        e \in BOOLEAN, n \in {5, 400, 6000}}

RunsFor(file_path) ==
    IF Lower(Suffix(file_path)) \in IMAGE_EXTENSIONS THEN ImageRuns
    ELSE IF Lower(Suffix(file_path)) \in DOCUMENT_EXTENSIONS THEN DocumentRuns
    ELSE {[exif |-> FALSE, embeds |-> FALSE, ocr |-> FALSE, tags |-> FALSE,
           text_len |-> 0]}

\* The folder starts with one file of an unsupported type in it.
Init ==
    /\ image_collection = {}
    /\ doc_collection = {}
    /\ disk = [p \in AbsPaths |-> IF p = "/w/e.xyz" THEN 1 ELSE 0]
    /\ last = NoCall
    /\ calls = 0
    /\ NoWatcher

\* A file is created, or modified in place.
WriteFile ==
    /\ \E p \in WatchedPaths \ {"/w/e.xyz"} :
        /\ disk[p] < MaxVersion
        /\ disk' = [disk EXCEPT ![p] = disk[p] + 1]
        /\ last' = [op |-> "write", path |-> p]
    /\ UNCHANGED <<image_collection, doc_collection, calls, watcher>>

Ingest ==
    /\ \E path \in IngestPaths, ir \in BOOLEAN, dr \in BOOLEAN :
        \E run \in IF \/ IsFileIndexed(image_collection, doc_collection,
                                       Resolve(path), ir, dr)
                      \/ disk[Resolve(path)] = 0
                   THEN {CHOOSE r \in RunsFor(path) : TRUE}
                   ELSE RunsFor(path) :
            LET done == IngestFile(image_collection, doc_collection, disk, path,
                                   ir, dr, run)
            IN  /\ image_collection' = done.images
                /\ doc_collection' = done.docs
                /\ last' = [op |-> "ingest", path |-> path,
                            lookup_raised |-> (ir \/ dr),
                            outcome |-> done.outcome, upserts |-> done.upserts,
                            embedding |-> done.embedding, run |-> run]
    /\ UNCHANGED <<disk, calls, watcher>>

\* VectorStore.__init__ after a restart: get_or_create_collection opens the
\* persisted collections as they were left.
Restart ==
    /\ last' = [op |-> "restart"]
    /\ UNCHANGED <<image_collection, doc_collection, disk, calls, watcher>>

Next ==
    \/ WriteFile
    \/ Ingest
    \/ Restart

Spec == Init /\ [][Next]_vars

(***************************************************************************)
(* C1  Idempotent upsert: after upsert(id, P1) and then upsert(id, P2) on  *)
(* the same collection there is exactly one row under that id and its      *)
(* embedding, metadata and text come from P2 alone (the metadata is P2's   *)
(* with the empty values dropped, the text is P2's, cut to the document    *)
(* limit in the document collection, or the placeholder built from P2's    *)
(* file_name when P2's text is empty); in every state a collection holds   *)
(* at most one row per id.                                                 *)
(***************************************************************************)
OneRowPerId(coll) == \A r1 \in coll, r2 \in coll : r1.id = r2.id => r1 = r2

RowIsFrom(r, P, label, limit) ==
    /\ r.embedding = P.embedding
    /\ DOMAIN r.metadata \subseteq DOMAIN P.metadata
    /\ \A k \in DOMAIN r.metadata : r.metadata[k] = P.metadata[k]
    /\ \A k \in DOMAIN P.metadata :
          (P.metadata[k] /= NONE /\ P.metadata[k] /= "") => k \in DOMAIN r.metadata
    /\ IF P.text.len > 0
       THEN /\ r.document.kind = P.text.kind
            /\ r.document.of = P.text.of
            /\ r.document.len = Min(P.text.len, limit)
       ELSE /\ r.document.kind = "placeholder"
            /\ r.document.of = label \o MetaGet(P.metadata, "file_name", "")

C1_IdempotentUpsert ==
    /\ OneRowPerId(image_collection)
    /\ OneRowPerId(doc_collection)
    /\ last.op = "upsert_image" =>
          LET rows == RowsOf(image_collection, FileId(last.path))
          IN  /\ Cardinality(rows) = 1
              /\ \A r \in rows : RowIsFrom(r, last.payload, "Image: ", last.payload.text.len)
    /\ last.op = "upsert_document" =>
          LET rows == RowsOf(doc_collection, FileId(last.path))
          IN  /\ Cardinality(rows) = 1
              /\ \A r \in rows : RowIsFrom(r, last.payload, "Document: ", DOC_TEXT_LIMIT)

\* A second upsert of an id has replaced a row written from another payload.
C1_Witness ==
    /\ last.op = "upsert_image"
    /\ last.had /= {}
    /\ last.had /= RowsOf(image_collection, FileId(last.path))
    /\ \E r \in last.had : \E k \in DOMAIN r.metadata : k \notin DOMAIN last.payload.metadata

(***************************************************************************)
(* C8  is_indexed(path) returns true if and only if a row whose id is      *)
(* derive_id(path) is present in the image collection or in the document   *)
(* collection.                                                             *)
(***************************************************************************)
Present(file_path) ==
    \/ CollectionHas(image_collection, FileId(file_path))
    \/ CollectionHas(doc_collection, FileId(file_path))

C8_IsIndexedIffPresent ==
    last.op = "is_file_indexed" => (last.result <=> Present(last.path))

(***************************************************************************)
(* C3  Top-K bound: for every query, scope and top_k = k >= 0, search      *)
(* returns at most k results, sorted non-increasing by score, and          *)
(* total_results is the length of the result list.                         *)
(***************************************************************************)
NonIncreasing(results) ==
    \A i \in 1..Len(results) : \A j \in 1..Len(results) :
        i < j => results[i].score >= results[j].score

C3_TopKBound ==
    last.op = "search" =>
        /\ ~last.out.raised
        /\ Len(last.out.response.results) <= last.top_k
        /\ NonIncreasing(last.out.response.results)
        /\ last.out.response.total_results = Len(last.out.response.results)

\* Both collections answered with top_k results each and the merge was cut.
C3_Witness ==
    /\ last.op = "search"
    /\ last.top_k = 2
    /\ ~last.out.raised
    /\ Len(last.out.image_results) + Len(last.out.document_results) > last.top_k
    /\ Len(last.out.response.results) = 2
    /\ last.out.response.results[1].score > last.out.response.results[2].score

(***************************************************************************)
(* C4  Score bounds, as claimed: every result has 0 <= score <= 1 and      *)
(* match_percentage == round(score * 100, 1), score being the score field  *)
(* of that same result.                                                    *)
(***************************************************************************)
C4_PercentageOfScoreField ==
    last.op = "format_results" =>
        \A i \in 1..Len(last.out) :
            /\ 0 <= last.out[i].score /\ last.out[i].score <= 10000
            /\ last.out[i].match_percentage = RoundTo(last.out[i].score, 10)

(***************************************************************************)
(* C4, amended: every result has 0 <= score <= 1; the score field is the   *)
(* similarity max(0, 1 - distance) rounded to 4 places and                 *)
(* match_percentage is that same unrounded similarity, times 100, rounded  *)
(* to 1 place (each is the nearest value of its step to the similarity).   *)
(***************************************************************************)
Similarity(distance) == IF distance >= Scale THEN 0 ELSE Scale - distance

Near(a, b, half) == a - b <= half /\ b - a <= half

C4_ScoreBounds ==
    last.op = "format_results" =>
        /\ Len(last.out) = Len(last.raw)
        /\ \A i \in 1..Len(last.out) :
            /\ 0 <= last.out[i].score /\ last.out[i].score <= 10000
            /\ 0 <= last.out[i].match_percentage
            /\ last.out[i].match_percentage <= 1000
            /\ \E j \in 1..Len(last.raw) :
                /\ last.raw[j].id = last.out[i].id
                /\ Near(last.out[i].score * 100, Similarity(last.raw[j].distance), 50)
                /\ Near(last.out[i].match_percentage * 1000,
                        Similarity(last.raw[j].distance), 500)

\* A distance beyond 1 is clamped to score 0, beside a hit whose percentage
\* is not the rounding of its score field.
C4_Witness ==
    /\ last.op = "format_results"
    /\ Len(last.out) = 2
    /\ last.out[1].score = 9995 /\ last.out[1].match_percentage = 999
    /\ last.out[2].score = 0
    /\ \E j \in 1..2 : last.raw[j].distance > Scale

(***************************************************************************)
(* C5  Empty-collection safety: search_images / search_documents on an     *)
(* empty collection returns no results and does not raise, for top_k >= 1; *)
(* the number of neighbours asked for is min(top_k, count) when count is   *)
(* not zero and 1 when the collection is empty.                            *)
(***************************************************************************)
C5_EmptyCollectionSafety ==
    (last.op \in {"search_images", "search_documents"} /\ last.top_k >= 1) =>
        /\ ~last.out.raised
        /\ last.count = 0 => (last.out.value = <<>> /\ last.out.n_results = 1)
        /\ last.count /= 0 =>
              /\ last.out.n_results <= last.top_k
              /\ last.out.n_results <= last.count
              /\ last.out.n_results \in {last.top_k, last.count}
              /\ Len(last.out.value) = last.out.n_results

C5_Witness ==
    /\ last.op = "search_images"
    /\ last.top_k = 2
    /\ last.count = 0
    /\ ~last.out.raised
    /\ last.out.value = <<>>

(***************************************************************************)
(* C6  Fallback correctness: when the intent parser is not configured, or  *)
(* is configured and fails (the call raises, the reply has no text, is not *)
(* JSON, or is JSON but not an object), search(q) does not raise, embeds   *)
(* q, keeps the caller's scope, returns refined_query = q and an empty     *)
(* intent, and returns the results of a run without intent parsing.        *)
(***************************************************************************)
FailingParsers ==
    { GeminiOff, GeminiRaises, GeminiNoText,
      GeminiText(<<JsonLine(JsonArray)>>),
      GeminiText(<<JsonLine(JsonNull)>>),
      GeminiText(<<JsonLine(ObjImage), Fence>>),
      GeminiText(<<Junk>>),
      GeminiText(<<Fence>>) }

WithoutParsing ==
    Search(image_collection, doc_collection, last.query, last.top_k,
           last.search_type, GeminiOff, last.imgRaises, last.docRaises, last.geom)

C6_FallbackCorrectness ==
    (last.op = "search" /\ last.gemini \in FailingParsers) =>
        /\ ~last.out.raised
        /\ last.out.response.query = last.query
        /\ last.out.response.refined_query = last.query
        /\ last.out.response.intent = EmptyDict
        /\ last.out.searched = last.search_type
        /\ last.out.response.results = WithoutParsing.response.results
        /\ last.out.response.total_results = WithoutParsing.response.total_results

\* A configured parser answered with JSON that is no object, and the search
\* went on to return results.
C6_Witness ==
    /\ last.op = "search"
    /\ last.gemini = GeminiText(<<JsonLine(JsonArray)>>)
    /\ last.search_type = "all"
    /\ ~last.out.raised
    /\ Len(last.out.response.results) = 2

(***************************************************************************)
(* C7  Cross-modal merge: when both collections are searched (the scope in *)
(* effect after step 2 is all) and no search fails, the results are the    *)
(* top_k highest-scoring rows of the two collections together, in          *)
(* descending score order whatever their modality: no row left out scores  *)
(* strictly higher than a row returned.                                    *)
(***************************************************************************)
RowScore(row) ==
    RoundTo(Similarity(CosineDistance([text |-> last.out.response.refined_query],
                                      row, last.geom)), 100)

C7_CrossModalMerge ==
    (/\ last.op = "search"
     /\ ~last.out.raised
     /\ last.out.searched = "all"
     /\ ~last.imgRaises /\ ~last.docRaises
     /\ last.top_k >= 1) =>
        LET results == last.out.response.results
            union == image_collection \cup doc_collection
            returned == {results[i].id : i \in 1..Len(results)}
        IN  /\ Len(results) = Min(last.top_k, Cardinality(union))
            /\ Cardinality(returned) = Len(results)
            /\ NonIncreasing(results)
            /\ \A i \in 1..Len(results) :
                  \E row \in union :
                      /\ row.id = results[i].id
                      /\ RowScore(row) = results[i].score
                      /\ results[i].metadata = row.metadata
            /\ \A row \in union :
                  row.id \notin returned =>
                      \A i \in 1..Len(results) : RowScore(row) <= results[i].score

\* An image scoring 0.9 and a document scoring 0.4 are both returned, the
\* image first.
C7_Witness ==
    /\ last.op = "search"
    /\ last.search_type = "all"
    /\ ~last.out.raised
    /\ ~last.imgRaises /\ ~last.docRaises
    /\ Len(last.out.response.results) = 2
    /\ last.out.response.results[1].id = FileId("/w/a.JPG")
    /\ last.out.response.results[1].score = 9000
    /\ last.out.response.results[2].id = FileId("/w/c.txt")
    /\ last.out.response.results[2].score = 4000

(***************************************************************************)
(* C10  Per-modality failure isolation: when both collections are to be    *)
(* searched and the embedding or the store search of one modality raises,  *)
(* search returns the other modality's results (sorted, at most top_k);    *)
(* when both raise it returns no results, total_results = 0, and does not  *)
(* raise.                                                                  *)
(***************************************************************************)
OtherModality(coll, space) ==
    SearchCollection(coll, [space |-> space, text |-> last.out.response.refined_query],
                     last.top_k, last.geom)

C10_FailureIsolation ==
    (last.op = "search" /\ (last.imgRaises \/ last.docRaises)) =>
        /\ ~last.out.raised
        /\ (last.out.searched = "all" /\ last.top_k >= 1) =>
            /\ (last.imgRaises /\ ~last.docRaises) =>
                  /\ last.out.response.results = OtherModality(doc_collection, "sentence").value
                  /\ Len(last.out.response.results) = Min(last.top_k, Count(doc_collection))
            /\ (last.docRaises /\ ~last.imgRaises) =>
                  /\ last.out.response.results = OtherModality(image_collection, "clip").value
                  /\ Len(last.out.response.results) = Min(last.top_k, Count(image_collection))
        /\ (last.imgRaises /\ last.docRaises) =>
            /\ last.out.response.results = <<>>
            /\ last.out.response.total_results = 0

\* The image search raised and the two documents were returned all the same.
C10_Witness ==
    /\ last.op = "search"
    /\ last.out.searched = "all"
    /\ last.imgRaises /\ ~last.docRaises
    /\ Count(image_collection) = 2
    /\ ~last.out.raised
    /\ Len(last.out.response.results) = 2

(***************************************************************************)
(* C2  Dedup-by-id: once ingest(path) has succeeded (the path's row is in  *)
(* the index), a later ingest(path) makes no upsert call and leaves both   *)
(* collections, hence both counts and the stored row, as they were.        *)
(***************************************************************************)
Untouched ==
    /\ image_collection' = image_collection
    /\ doc_collection' = doc_collection

C2_DedupById ==
    [][(last'.op = "ingest" /\ Present(Resolve(last'.path))) =>
            (last'.upserts = 0 /\ Untouched)]_vars

\* The same, for the calls in which neither lookup of is_file_indexed raised.
C2_DedupWhenLookupsAnswer ==
    [][(last'.op = "ingest" /\ Present(Resolve(last'.path)) /\ ~last'.lookup_raised) =>
            (last'.upserts = 0 /\ last'.outcome = "skipped" /\ Untouched)]_vars

(***************************************************************************)
(* C9  Embedding failure writes nothing: when the embedding step of        *)
(* ingest(path) gives no embedding (the model raises, or the document has  *)
(* too little text), ingest makes no upsert call, both collections stay as *)
(* they were, a path that was not indexed is still not indexed, and no row *)
(* is ever stored without an embedding.                                    *)
(***************************************************************************)
C9_EmbeddingFailureWritesNothing ==
    [][(last'.op = "ingest" /\ last'.embedding = "none") =>
            /\ last'.upserts = 0
            /\ Untouched
            /\ ~Present(Resolve(last'.path)) =>
                  ~IsFileIndexed(image_collection', doc_collection',
                                 Resolve(last'.path), FALSE, FALSE)
            /\ \A r \in image_collection' \cup doc_collection' : r.embedding /= <<>>]_vars

\* An existing, unindexed file went through ingest_file, the embedding step
\* gave nothing, and the file is still not indexed.
C9_Witness ==
    /\ last.op = "ingest"
    /\ last.embedding = "none"
    /\ last.outcome = "no_embedding"
    /\ disk[Resolve(last.path)] > 0
    /\ ~Present(Resolve(last.path))

(***************************************************************************)
(* The file watcher (backend/ingestion/file_watcher.py).                   *)
(*                                                                         *)
(* A name is a sequence of characters and a path under the watched root is *)
(* the sequence of its names, so that suffixes, lower-casing and the order *)
(* of sorted() are computed on the characters.                             *)
(***************************************************************************)
\* ord(ch)
Code(ch) ==
    CASE ch = "-" -> 45 [] ch = "." -> 46 [] ch = "/" -> 47
      [] ch = "B" -> 66 [] ch = "D" -> 68 [] ch = "M" -> 77
      [] ch = "a" -> 97 [] ch = "b" -> 98 [] ch = "c" -> 99
      [] ch = "d" -> 100 [] ch = "e" -> 101 [] ch = "f" -> 102
      [] ch = "m" -> 109 [] ch = "n" -> 110 [] ch = "p" -> 112
      [] ch = "t" -> 116 [] ch = "x" -> 120 [] ch = "y" -> 121
      [] OTHER -> 122

\* str.lower(), character by character
LowerChar(ch) ==
    CASE ch = "B" -> "b" [] ch = "D" -> "d" [] ch = "M" -> "m" [] OTHER -> ch

LowerChars(name) == [i \in 1..Len(name) |-> LowerChar(name[i])]

\* the characters as one string
RECURSIVE Str(_)
Str(name) == IF name = <<>> THEN "" ELSE Head(name) \o Str(Tail(name))

\* str.rfind("."), 0 when there is none
LastDot(name) ==
    LET dots == {i \in 1..Len(name) : name[i] = "."}
    IN  IF dots = {} THEN 0 ELSE CHOOSE i \in dots : \A j \in dots : j <= i

\* Path.suffix of a file name: from the last dot on, unless that dot is the
\* first or the last character.
SuffixOf(name) ==
    LET i == LastDot(name)
    IN  IF 1 < i /\ i < Len(name) THEN SubSeq(name, i, Len(name)) ELSE <<>>

\* file_path.suffix.lower() in ALL_EXTENSIONS
AllowedPath(path) ==
    Str(LowerChars(SuffixOf(path[Len(path)]))) \in ALL_EXTENSIONS

\* str < str: by code point, a proper prefix first
RECURSIVE StrLess(_, _)
StrLess(s, t) ==
    IF t = <<>> THEN FALSE
    ELSE IF s = <<>> THEN TRUE
    ELSE IF Code(Head(s)) /= Code(Head(t)) THEN Code(Head(s)) < Code(Head(t))
    ELSE StrLess(Tail(s), Tail(t))

\* Path < Path: the sequences of names compared name by name
RECURSIVE PathLess(_, _)
PathLess(p, q) ==
    IF q = <<>> THEN FALSE
    ELSE IF p = <<>> THEN TRUE
    ELSE IF Head(p) /= Head(q) THEN StrLess(Head(p), Head(q))
    ELSE PathLess(Tail(p), Tail(q))

\* sorted(paths)
RECURSIVE SortPaths(_)
SortPaths(paths) ==
    IF paths = {} THEN <<>>
    ELSE LET first == CHOOSE x \in paths : \A y \in paths \ {x} : PathLess(x, y)
         IN  <<first>> \o SortPaths(paths \ {first})

\* str(path), below the root
RECURSIVE PathString(_)
PathString(path) ==
    IF Len(path) = 1 THEN path[1]
    ELSE path[1] \o <<"/">> \o PathString(Tail(path))

File(path) == [path |-> path, kind |-> "file"]
Dir(path) == [path |-> path, kind |-> "dir"]

\* What the watched folder may hold: a directory n beside a file n.md, a file
\* with an upper-case suffix, one of a type that is not handled, one without
\* a suffix, and a directory whose name looks like a document.
Universe ==
    { Dir(<<<<"n">>>>),
      File(<<<<"n">>, <<"a", ".", "t", "x", "t">>>>),
      File(<<<<"n", ".", "m", "d">>>>),
      File(<<<<"B", ".", "M", "D">>>>),
      File(<<<<"c", ".", "x", "y", "z">>>>),
      File(<<<<"f">>>>),
      Dir(<<<<"d", ".", "p", "d", "f">>>>),
      File(<<<<"d", ".", "p", "d", "f">>, <<"e", ".", "m", "d">>>>) }

Trees ==
    {T \in SUBSET Universe :
        \A e \in T : Len(e.path) = 2 => Dir(<<e.path[1]>>) \in T}

\* folder.rglob("*")
RGlob(t) == {e.path : e \in t}

\* file_path.is_file()
IsFile(t, path) == File(path) \in t

\* What the scan loop goes on with after a callback: the exception of one
\* file is caught and logged.
AfterCallback_Aborts(rest, raised) == IF raised THEN <<>> ELSE rest

AfterCallback(rest, raised) == rest

(***************************************************************************)
(* SpecScan: scan_existing_files over a folder; the callback may raise.    *)
(***************************************************************************)
InitScan ==
    /\ image_collection = {}
    /\ doc_collection = {}
    /\ disk = [p \in AbsPaths |-> 0]
    /\ last = NoCall
    /\ calls = 0
    /\ tree \in Trees
    /\ pending = <<>>
    /\ delivered = <<>>
    /\ running = "idle"
    /\ inv = <<>>

\* for file_path in sorted(folder.rglob("*")):
ScanStart ==
    /\ running = "idle"
    /\ pending' = SortPaths(RGlob(tree))
    /\ running' = "scanning"
    /\ UNCHANGED <<image_collection, doc_collection, disk, last, calls,
                   tree, delivered, inv>>

\* one turn of the loop
ScanVisit ==
    /\ running = "scanning"
    /\ pending /= <<>>
    /\ LET file_path == Head(pending)
       IN  IF IsFile(tree, file_path) /\ AllowedPath(file_path)
           THEN \E raised \in BOOLEAN :
                   /\ delivered' = Append(delivered,
                                          [path |-> file_path, raised |-> raised,
                                           via |-> "scan"])
                   /\ pending' = AfterCallback(Tail(pending), raised)
           ELSE /\ delivered' = delivered
                /\ pending' = Tail(pending)
    /\ UNCHANGED <<image_collection, doc_collection, disk, last, calls,
                   tree, running, inv>>

\* the loop is over
ScanEnd ==
    /\ running = "scanning"
    /\ pending = <<>>
    /\ running' = "done"
    /\ UNCHANGED <<image_collection, doc_collection, disk, last, calls,
                   tree, pending, delivered, inv>>

NextScan ==
    \/ ScanStart
    \/ ScanVisit
    \/ ScanEnd

SpecScan == InitScan /\ [][NextScan]_vars

(***************************************************************************)
(* C11  scan_existing calls the ingestion callback exactly once for every  *)
(* regular file under the root (at any depth) whose lower-cased extension  *)
(* is allowed, never for another file or for a directory, in the order of  *)
(* the paths (name by name); an exception of the callback does not abort   *)
(* the scan: every later matching file is still passed to the callback.    *)
(***************************************************************************)
Matching == {e.path : e \in {x \in tree : x.kind = "file" /\ AllowedPath(x.path)}}

DeliveredPaths == {delivered[i].path : i \in 1..Len(delivered)}

PendingPaths == {pending[i] : i \in 1..Len(pending)}

C11_ScanExistingFiles ==
    /\ running \in {"scanning", "done"} =>
          /\ DeliveredPaths \subseteq Matching
          /\ \A i \in 1..Len(delivered) : \A j \in 1..Len(delivered) :
                i < j => PathLess(delivered[i].path, delivered[j].path)
          /\ Matching \subseteq DeliveredPaths \cup PendingPaths
    /\ running = "done" =>
          /\ DeliveredPaths = Matching
          /\ Len(delivered) = Cardinality(Matching)

\* In a full folder the scan is over: the callback raised for the first
\* file and was still called for the four matching files, nested ones
\* included.
C11_Witness ==
    /\ running = "done"
    /\ tree = Universe
    /\ Len(delivered) = 4
    /\ delivered[1].raised
    /\ delivered[2].path = <<<<"d", ".", "p", "d", "f">>, <<"e", ".", "m", "d">>>>
    /\ ~delivered[4].raised

\* The order of the calls read as the order of the path strings
\* (n.md before n/a.txt, "." being smaller than "/").
ScanInStringOrder ==
    \A i \in 1..Len(delivered) : \A j \in 1..Len(delivered) :
        i < j => StrLess(PathString(delivered[i].path), PathString(delivered[j].path))

(***************************************************************************)
(* SpecWatch: LifeVaultFileHandler under the observer thread.  The thread  *)
(* takes the queued events one by one and dispatches each to the handler   *)
(* method of its type; an exception leaving the handler ends the thread.   *)
(***************************************************************************)
EventTypes == {"created", "modified", "deleted", "moved"}

\* The paths events are about: two files of handled types (one nested, one
\* with an upper-case suffix), a file of another type, a directory named
\* like a document.
EventEntries ==
    { File(<<<<"n">>, <<"a", ".", "t", "x", "t">>>>),
      File(<<<<"B", ".", "M", "D">>>>),
      File(<<<<"c", ".", "x", "y", "z">>>>),
      Dir(<<<<"d", ".", "p", "d", "f">>>>) }

\* An event of the observer.  A rename inside the watched folder is one
\* moved event from the old path (src_path) to the new one (dest_path); the
\* other events have no dest_path.
Events ==
    {[type |-> t, src_path |-> e.path, dest_path |-> <<>>,
      is_directory |-> (e.kind = "dir")] :
        t \in EventTypes \ {"moved"}, e \in EventEntries}
    \cup
    {[type |-> "moved", src_path |-> e.path,
      dest_path |-> <<<<"B", ".", "M", "D">>>>, is_directory |-> FALSE] :
        e \in {x \in EventEntries : x.kind = "file" /\ x.path /= <<<<"B", ".", "M", "D">>>>}}

Ignored == [called |-> FALSE, raised |-> FALSE, propagated |-> FALSE]

\* Whether an exception of the callback leaves _handle.
Propagates_Uncaught(raised) == raised

Propagates(raised) == FALSE

\* _handle
Handle(file_path, raises) ==
    IF AllowedPath(file_path)
    THEN [called |-> TRUE, raised |-> raises, propagated |-> Propagates(raises)]
    ELSE Ignored

\* on_created / on_modified
OnFileEvent(event, raises) ==
    IF ~event.is_directory THEN Handle(event.src_path, raises) ELSE Ignored

\* FileSystemEventHandler.dispatch: the method of the event's type; the
\* methods the handler does not override do nothing.
DispatchEvent(event, raises) ==
    IF event.type \in {"created", "modified"} THEN OnFileEvent(event, raises)
    ELSE Ignored

InitWatch ==
    /\ image_collection = {}
    /\ doc_collection = {}
    /\ disk = [p \in AbsPaths |-> 0]
    /\ last = NoCall
    /\ calls = 0
    /\ tree = EventEntries
    /\ pending = <<>>
    /\ delivered = <<>>
    /\ running = "watching"
    /\ inv = <<>>

\* The observer queues an event of the watched folder.
EmitEvent ==
    /\ calls < MaxEvents
    /\ \E event \in Events : pending' = Append(pending, event)
    /\ calls' = calls + 1
    /\ UNCHANGED <<image_collection, doc_collection, disk, last,
                   tree, delivered, running, inv>>

\* The observer thread hands the oldest queued event to the handler.
Dispatch ==
    /\ running = "watching"
    /\ pending /= <<>>
    /\ LET event == Head(pending)
       IN  \E raises \in IF DispatchEvent(event, FALSE).called THEN BOOLEAN ELSE {FALSE} :
             LET done == DispatchEvent(event, raises)
             IN  /\ delivered' = IF done.called
                                 THEN Append(delivered, [path |-> event.src_path,
                                                         raised |-> done.raised,
                                                         via |-> "event"])
                                 ELSE delivered
                 /\ running' = IF done.propagated THEN "dead" ELSE "watching"
                 /\ last' = [op |-> "dispatch", event |-> event,
                             propagated |-> done.propagated]
    /\ pending' = Tail(pending)
    /\ UNCHANGED <<image_collection, doc_collection, disk, calls, tree, inv>>

NextWatch ==
    \/ EmitEvent
    \/ Dispatch

SpecWatch == InitWatch /\ [][NextWatch]_vars

(***************************************************************************)
(* C12  While watching, each create or modify event on a non-directory     *)
(* path with an allowed extension causes exactly one callback invocation   *)
(* with that path; a directory event, an event of another type or an event *)
(* on a path with another extension causes none; an exception of the       *)
(* callback never leaves the handler: the observer thread is still         *)
(* running after every event, so a later event is dispatched like the      *)
(* first.                                                                  *)
(***************************************************************************)
ToDeliver(event) ==
    /\ event.type \in {"created", "modified"}
    /\ ~event.is_directory
    /\ Str(LowerChars(SuffixOf(event.src_path[Len(event.src_path)]))) \in
          {".jpg", ".jpeg", ".png", ".webp", ".bmp", ".pdf", ".txt", ".docx", ".md"}

DispatchedRight ==
    (pending /= <<>> /\ pending' = Tail(pending)) =>
        /\ IF ToDeliver(Head(pending))
           THEN /\ Len(delivered') = Len(delivered) + 1
                /\ SubSeq(delivered', 1, Len(delivered)) = delivered
                /\ delivered'[Len(delivered')].path = Head(pending).src_path
           ELSE delivered' = delivered
        /\ ~last'.propagated
        /\ running' = "watching"

C12_OneCallbackPerEvent == [][DispatchedRight]_vars

\* The callback raised for one event and was called again for a later one,
\* with a directory event and an event on an unhandled type in between
\* or around them.
C12_Witness ==
    /\ calls = 3
    /\ pending = <<>>
    /\ running = "watching"
    /\ Len(delivered) = 2
    /\ delivered[1].raised
    /\ delivered[1].path = <<<<"B", ".", "M", "D">>>>
    /\ delivered[2].path = <<<<"n">>, <<"a", ".", "t", "x", "t">>>>

(***************************************************************************)
(* C13  Metadata sanitization: in every state no stored row of either      *)
(* collection has a metadata key whose value is None or the empty string,  *)
(* and every key the caller supplied with a non-empty value is in the row  *)
(* written by the call, with that value.                                   *)
(***************************************************************************)
Sanitized(coll) ==
    \A r \in coll : \A k \in DOMAIN r.metadata :
        r.metadata[k] /= NONE /\ r.metadata[k] /= ""

KeepsSupplied(coll) ==
    \A r \in RowsOf(coll, FileId(last.path)) :
        \A k \in DOMAIN last.payload.metadata :
            (last.payload.metadata[k] /= NONE /\ last.payload.metadata[k] /= "") =>
                (k \in DOMAIN r.metadata /\ r.metadata[k] = last.payload.metadata[k])

C13_MetadataSanitized ==
    /\ Sanitized(image_collection)
    /\ Sanitized(doc_collection)
    /\ last.op = "upsert_image" => KeepsSupplied(image_collection)
    /\ last.op = "upsert_document" => KeepsSupplied(doc_collection)

\* A document was upserted with an empty camera_make and a top_tag: the row
\* has the tag and no camera_make; an image row written from metadata with a
\* None value is in the store as well.
C13_Witness ==
    /\ last.op = "upsert_document"
    /\ last.payload.metadata = MetaB
    /\ \E r \in doc_collection :
          /\ r.id = FileId(last.path)
          /\ DOMAIN r.metadata = {"file_name", "top_tag"}
          /\ r.metadata["top_tag"] = "cat"
    /\ \E r \in image_collection : DOMAIN r.metadata = {}

(***************************************************************************)
(* C14  One upsert per success, no partial write: every ingest(path) makes *)
(* at most one upsert call, and exactly one when the file exists, is not   *)
(* yet indexed, has a recognised extension and its embedding is produced;  *)
(* a call without an upsert writes nothing, a call with one changes the    *)
(* row of that path only, and every stored row has its vector, its         *)
(* metadata and its text together.                                         *)
(***************************************************************************)
WholeRow(r) ==
    /\ r.embedding /= <<>>
    /\ DOMAIN r.metadata /= {}
    /\ r.document.len > 0

OthersKept(before, after, id) ==
    {r \in before : r.id /= id} = {r \in after : r.id /= id}

IngestedOnce ==
    last'.op = "ingest" =>
        LET file_path == Resolve(last'.path)
            id == FileId(file_path)
        IN  /\ last'.upserts \in {0, 1}
            /\ (/\ ~Present(file_path)
                /\ disk[file_path] > 0
                /\ Lower(Suffix(file_path)) \in ALL_EXTENSIONS
                /\ last'.embedding = "produced") =>
                    /\ last'.upserts = 1
                    /\ \/ CollectionHas(image_collection', id)
                       \/ CollectionHas(doc_collection', id)
            /\ last'.upserts = 0 => Untouched
            /\ last'.upserts = 1 =>
                    /\ OthersKept(image_collection, image_collection', id)
                    /\ OthersKept(doc_collection, doc_collection', id)
            /\ \A r \in image_collection' \cup doc_collection' : WholeRow(r)

C14_OneUpsertPerSuccess == [][IngestedOnce]_vars

\* A document that was not indexed has just been ingested with one upsert,
\* beside an image indexed earlier.
C14_Witness ==
    /\ last.op = "ingest"
    /\ last.path = "/w/c.txt"
    /\ last.upserts = 1
    /\ last.embedding = "produced"
    /\ ~last.lookup_raised
    /\ Count(doc_collection) = 1
    /\ Count(image_collection) = 1
    /\ \A r \in doc_collection : WholeRow(r)

(***************************************************************************)
(* C15  Presence-only skip: when a path is already indexed and its file    *)
(* has changed on disk since, an ingest of that path (modify event or      *)
(* re-scan) leaves the stored row untouched and returns before extracting  *)
(* metadata or asking for an embedding.                                    *)
(***************************************************************************)
\* The row of the path was written from an earlier version of the file.
Stale(file_path) ==
    /\ disk[file_path] > 0
    /\ \E r \in image_collection \cup doc_collection :
          /\ r.id = FileId(file_path)
          /\ r.metadata["modified_date"] /= Stamps[disk[file_path]]

SkippedUntouched ==
    /\ last'.outcome = "skipped"
    /\ last'.upserts = 0
    /\ last'.embedding = "not requested"
    /\ Untouched

C15_PresenceOnlySkip ==
    [][(last'.op = "ingest" /\ Stale(Resolve(last'.path))) => SkippedUntouched]_vars

\* The same, for the calls in which neither lookup of is_file_indexed raised.
C15_SkipWhenLookupsAnswer ==
    [][(last'.op = "ingest" /\ Stale(Resolve(last'.path)) /\ ~last'.lookup_raised) =>
            SkippedUntouched]_vars

(***************************************************************************)
(* C16  Record lifecycle update: when ingestion runs again for an already  *)
(* indexed file that was modified, the row is replaced, so that afterwards *)
(* the stored vector and metadata are those of the file as it is now       *)
(* (stated for the calls in which the lookups of is_file_indexed answer).  *)
(***************************************************************************)
ReflectsDisk(file_path) ==
    \E r \in image_collection' \cup doc_collection' :
        /\ r.id = FileId(file_path)
        /\ r.embedding = EmbeddingOf(file_path, disk[file_path])
        /\ r.metadata["modified_date"] = Stamps[disk[file_path]]

C16_RecordUpdatedOnModify ==
    [][(last'.op = "ingest" /\ Stale(Resolve(last'.path)) /\ ~last'.lookup_raised) =>
            ReflectsDisk(Resolve(last'.path))]_vars

(***************************************************************************)
(* C17  Unsupported extension is a no-op: ingest(path) called on an        *)
(* existing file whose extension is neither an image nor a document        *)
(* extension returns without raising, makes no upsert call and leaves both *)
(* collections as they were.                                               *)
(***************************************************************************)
UnsupportedNoOp ==
    (/\ last'.op = "ingest"
     /\ disk[Resolve(last'.path)] > 0
     /\ Lower(Suffix(Resolve(last'.path))) \notin IMAGE_EXTENSIONS
     /\ Lower(Suffix(Resolve(last'.path))) \notin DOCUMENT_EXTENSIONS) =>
        /\ last'.outcome /= "raised"
        /\ last'.upserts = 0
        /\ Untouched

C17_UnsupportedExtensionNoOp == [][UnsupportedNoOp]_vars

\* ingest_file has just returned for the .xyz file, with an image and a
\* document in the index.
C17_Witness ==
    /\ last.op = "ingest"
    /\ last.path = "/w/e.xyz"
    /\ last.outcome = "unsupported"
    /\ last.upserts = 0
    /\ Count(image_collection) = 1
    /\ Count(doc_collection) = 1

(***************************************************************************)
(* EXIF GPS tags.  A coordinate tag holds a list of rationals (degrees,    *)
(* minutes, seconds), each a numerator and a denominator; a reference tag  *)
(* holds a hemisphere letter.  A decimal coordinate is a sign and a        *)
(* magnitude in millionths of a degree: round(decimal, 6) leaves a float   *)
(* with at most six decimals, and a float keeps the sign of a zero.        *)
(* The floating-point sum is modelled by the exact rational sum; on the    *)
(* coordinates of GpsCoords the two round to the same sixth decimal.       *)
(***************************************************************************)
Ratio(num, den) == [num |-> num, den |-> den]

Dms(d, m, s) == <<d, m, s>>

GpsCoords ==
    { Dms(Ratio(37, 1), Ratio(48, 1), Ratio(0, 1)),
      Dms(Ratio(122, 1), Ratio(24, 1), Ratio(0, 1)),
      Dms(Ratio(0, 1), Ratio(0, 1), Ratio(0, 1)),
      Dms(Ratio(37, 1), Ratio(48, 1), Ratio(1, 1)),
      Dms(Ratio(12, 1), Ratio(3459, 100), Ratio(0, 1)),
      Dms(Ratio(40, 1), Ratio(26, 1), Ratio(4617, 100)),
      Dms(Ratio(37, 1), Ratio(48, 1), Ratio(0, 0)),
      <<Ratio(37, 1), Ratio(48, 1)>> }

NoTag == [present |-> FALSE]
CoordTag(values) == [present |-> TRUE, values |-> values]

\* tags.get(...) for the four GPS tags: a missing tag is None
ExifTags ==
    [lat : {NoTag} \cup {CoordTag(v) : v \in GpsCoords},
     lat_ref : {"N", "S", NONE},
     lon : {NoTag} \cup {CoordTag(v) : v \in GpsCoords},
     lon_ref : {"E", "W", NONE}]

\* gps_ref and str(gps_ref) in ("S", "W")
SouthOrWest_SouthOnly(gps_ref) == gps_ref = "S"

SouthOrWest(gps_ref) == gps_ref /= NONE /\ gps_ref \in {"S", "W"}

\* values[i] for i < 3 and the three divisions: IndexError on a short list,
\* ZeroDivisionError on a zero denominator
ConversionRaises(values) ==
    \/ Len(values) < 3
    \/ \E i \in 1..3 : values[i].den = 0

NoDecimal == [ok |-> FALSE]

\* _convert_gps_to_decimal: None on any exception, else the sum
\* d + m/60 + s/3600, negated for S and W, rounded to six decimals.  The sum
\* is n / (den * 3600); its whole degrees and the remainder are rounded
\* apart so that every product stays below 2^31.
ConvertGpsToDecimal(gps_coords, gps_ref) ==
    IF ConversionRaises(gps_coords) THEN NoDecimal
    ELSE LET d == gps_coords[1]
             m == gps_coords[2]
             s == gps_coords[3]
             den == d.den * m.den * s.den
             n == d.num * m.den * s.den * 3600
                    + m.num * d.den * s.den * 60
                    + s.num * d.den * m.den
             whole == n \div (den * 3600)
             rest == n % (den * 3600)
         IN  [ok |-> TRUE,
              negative |-> SouthOrWest(gps_ref),
              micro |-> whole * 1000000 + RoundTo(rest * 2500, den * 9)]

\* str(lat): the shortest decimal that reads back as the same float
StrOfFloat(x) == [str_of |-> [negative |-> x.negative, micro |-> x.micro]]

\* extract_exif_metadata, the GPS keys of its result
ExtractGps(tags) ==
    IF tags.lat.present /\ tags.lon.present
    THEN LET lat == ConvertGpsToDecimal(tags.lat.values, tags.lat_ref)
             lon == ConvertGpsToDecimal(tags.lon.values, tags.lon_ref)
         IN  IF lat.ok /\ lon.ok
             THEN [k \in {"gps_latitude", "gps_longitude"} |->
                      IF k = "gps_latitude" THEN StrOfFloat(lat)
                      ELSE StrOfFloat(lon)]
             ELSE EmptyDict
    ELSE EmptyDict

(***************************************************************************)
(* SpecExif: extract_exif_metadata is applied once to the GPS tags of an    *)
(* image.                                                                  *)
(***************************************************************************)
ExtractExifCall ==
    /\ last = NoCall
    /\ \E tags \in ExifTags :
          last' = [op |-> "extract_exif", tags |-> tags, out |-> ExtractGps(tags)]
    /\ UNCHANGED <<image_collection, doc_collection, disk, calls, watcher>>

SpecExif == InitStore /\ [][ExtractExifCall]_vars

(***************************************************************************)
(* C18  GPS conversion.  For degrees d, minutes m and seconds s given as   *)
(* rationals with non-zero denominators, the stored coordinate is          *)
(* d + m/60 + s/3600 rounded to six decimals (it differs from the sum by   *)
(* at most half a millionth of a degree), negated exactly when the         *)
(* hemisphere reference is S or W; when both coordinates are so given both *)
(* are stored; gps_latitude and gps_longitude are stored either both or    *)
(* not at all.                                                             *)
(***************************************************************************)
WellFormed(tag) ==
    /\ tag.present
    /\ Len(tag.values) = 3
    /\ \A i \in 1..3 : tag.values[i].den /= 0

\* d + m/60 + s/3600 as the fraction SumNum / (SumDen * 3600)
SumDen(v) == v[1].den * v[2].den * v[3].den

SumNum(v) ==
    v[1].num * v[2].den * v[3].den * 3600
      + v[2].num * v[1].den * v[3].den * 60
      + v[3].num * v[1].den * v[2].den

WholeDegrees(v) == SumNum(v) \div (SumDen(v) * 3600)

\* the part of the sum below one degree is FractionNum / (SumDen * 9)
\* millionths of a degree
FractionNum(v) == (SumNum(v) % (SumDen(v) * 3600)) * 2500

Dist(a, b) == IF a >= b THEN a - b ELSE b - a

\* the magnitude of the stored coordinate is the sum, exactly
EqualsSum(coord, v) ==
    /\ coord.micro \div 1000000 = WholeDegrees(v)
    /\ (coord.micro % 1000000) * (SumDen(v) * 9) = FractionNum(v)

\* the magnitude of the stored coordinate is within half a millionth of the sum
RoundsSum(coord, v) ==
    LET f == coord.micro - WholeDegrees(v) * 1000000
    IN  /\ f \in 0..1000000
        /\ 2 * Dist(f * (SumDen(v) * 9), FractionNum(v)) <= SumDen(v) * 9

BothOrNeither(out) ==
    DOMAIN out \in {{}, {"gps_latitude", "gps_longitude"}}

SignFollowsRef(coord, ref) == coord.negative <=> ref \in {"S", "W"}

C18_GpsConversion ==
    last.op = "extract_exif" =>
        /\ BothOrNeither(last.out)
        /\ (WellFormed(last.tags.lat) /\ WellFormed(last.tags.lon)) =>
              DOMAIN last.out = {"gps_latitude", "gps_longitude"}
        /\ "gps_latitude" \in DOMAIN last.out =>
              /\ WellFormed(last.tags.lat)
              /\ RoundsSum(last.out["gps_latitude"].str_of, last.tags.lat.values)
              /\ SignFollowsRef(last.out["gps_latitude"].str_of, last.tags.lat_ref)
        /\ "gps_longitude" \in DOMAIN last.out =>
              /\ WellFormed(last.tags.lon)
              /\ RoundsSum(last.out["gps_longitude"].str_of, last.tags.lon.values)
              /\ SignFollowsRef(last.out["gps_longitude"].str_of, last.tags.lon_ref)

\* the statement with exact equality: the stored coordinate is the sum itself
C18_GpsEqualsSum ==
    last.op = "extract_exif" =>
        /\ BothOrNeither(last.out)
        /\ "gps_latitude" \in DOMAIN last.out =>
              /\ EqualsSum(last.out["gps_latitude"].str_of, last.tags.lat.values)
              /\ SignFollowsRef(last.out["gps_latitude"].str_of, last.tags.lat_ref)
        /\ "gps_longitude" \in DOMAIN last.out =>
              /\ EqualsSum(last.out["gps_longitude"].str_of, last.tags.lon.values)
              /\ SignFollowsRef(last.out["gps_longitude"].str_of, last.tags.lon_ref)

\* N 37 deg 48' 0" and W 122 deg 24' 0" are stored as 37.8 and -122.4
C18_Witness ==
    /\ last.op = "extract_exif"
    /\ last.tags.lat = CoordTag(Dms(Ratio(37, 1), Ratio(48, 1), Ratio(0, 1)))
    /\ last.tags.lat_ref = "N"
    /\ last.tags.lon = CoordTag(Dms(Ratio(122, 1), Ratio(24, 1), Ratio(0, 1)))
    /\ last.tags.lon_ref = "W"
    /\ last.out["gps_latitude"].str_of = [negative |-> FALSE, micro |-> 37800000]
    /\ last.out["gps_longitude"].str_of = [negative |-> TRUE, micro |-> 122400000]

(***************************************************************************)
(* SpecRace: two invocations of ingest_file for one path that is not yet   *)
(* indexed, one on the watcher thread and one on the request thread.  Each *)
(* invocation keeps its locals (metadata, result) and goes through the     *)
(* dedup check, extract_file_metadata, the processing of the content and   *)
(* the upsert; the steps of the two interleave freely, and the file may be *)
(* modified in between.  collection.upsert writes its row in one step.     *)
(***************************************************************************)
NoResult == [embedding |-> <<>>, text_content |-> EmptyText]

Invocation(path) ==
    [pc |-> "check", path |-> path, metadata |-> EmptyDict, result |-> NoResult,
     outcome |-> "running"]

RacePaths == {"/w/a.JPG", "/w/c.txt"}

InitRace ==
    /\ image_collection = {}
    /\ doc_collection = {}
    /\ \E target \in RacePaths :
          /\ disk = [p \in AbsPaths |-> IF p = target THEN 1 ELSE 0]
          /\ inv \in [1..2 -> {Invocation(p) : p \in {q \in IngestPaths : Resolve(q) = target}}]
    /\ last = NoCall
    /\ calls = 0
    /\ tree = {}
    /\ pending = <<>>
    /\ delivered = <<>>
    /\ running = "idle"

Step(i, pc) == [op |-> "ingest_step", invocation |-> i, pc |-> pc]

\* file_path = resolve(...); if vector_store.is_file_indexed(file_path): return
RaceCheck(i) ==
    /\ inv[i].pc = "check"
    /\ \E ir \in BOOLEAN, dr \in BOOLEAN :
          inv' = IF IsFileIndexed(image_collection, doc_collection,
                                  Resolve(inv[i].path), ir, dr)
                 THEN [inv EXCEPT ![i].pc = "done", ![i].outcome = "skipped"]
                 ELSE [inv EXCEPT ![i].pc = "metadata"]
    /\ last' = Step(i, "check")
    /\ UNCHANGED <<image_collection, doc_collection, disk, calls,
                   tree, pending, delivered, running>>

\* metadata = extract_file_metadata(file_path): the file as it is now
RaceMetadata(i) ==
    /\ inv[i].pc = "metadata"
    /\ inv' = [inv EXCEPT ![i].pc = "process",
                          ![i].metadata = ExtractFileMetadata(Resolve(inv[i].path),
                                                              disk[Resolve(inv[i].path)])]
    /\ last' = Step(i, "metadata")
    /\ UNCHANGED <<image_collection, doc_collection, disk, calls,
                   tree, pending, delivered, running>>

\* the image or document branch up to the embedding check: the content as it
\* is now
RaceProcess(i) ==
    /\ inv[i].pc = "process"
    /\ \E run \in RunsFor(inv[i].path) :
          LET file_path == Resolve(inv[i].path)
              image == Lower(Suffix(file_path)) \in IMAGE_EXTENSIONS
              with_exif == Update(inv[i].metadata, ExtractExifMetadata(run))
              tags == AutoTagImage(run)
              metadata == IF ~image THEN inv[i].metadata
                          ELSE IF tags /= <<>> THEN Update(with_exif, TagFields(tags))
                          ELSE with_exif
              result == IF image THEN ProcessImage(file_path, disk[file_path], run)
                        ELSE ProcessDocument(file_path, disk[file_path], run)
          IN  inv' = IF EmbeddingMissing(result)
                     THEN [inv EXCEPT ![i].pc = "done", ![i].outcome = "no_embedding",
                                      ![i].result = result]
                     ELSE [inv EXCEPT ![i].pc = "upsert", ![i].metadata = metadata,
                                      ![i].result = result]
    /\ last' = Step(i, "process")
    /\ UNCHANGED <<image_collection, doc_collection, disk, calls,
                   tree, pending, delivered, running>>

\* vector_store.upsert_image(...) / vector_store.upsert_document(...)
RaceUpsert(i) ==
    /\ inv[i].pc = "upsert"
    /\ LET file_path == Resolve(inv[i].path)
       IN  IF Lower(Suffix(file_path)) \in IMAGE_EXTENSIONS
           THEN /\ image_collection' =
                     UpsertImage(image_collection, file_path, inv[i].result.embedding,
                                 inv[i].metadata, inv[i].result.text_content)
                /\ UNCHANGED doc_collection
           ELSE /\ doc_collection' =
                     UpsertDocument(doc_collection, file_path, inv[i].result.embedding,
                                    inv[i].metadata, inv[i].result.text_content)
                /\ UNCHANGED image_collection
    /\ inv' = [inv EXCEPT ![i].pc = "done", ![i].outcome = "indexed"]
    /\ last' = Step(i, "upsert")
    /\ UNCHANGED <<disk, calls, tree, pending, delivered, running>>

\* the file is modified while the invocations run
RaceWrite ==
    /\ \E p \in RacePaths :
          /\ disk[p] > 0
          /\ disk[p] < MaxVersion
          /\ disk' = [disk EXCEPT ![p] = disk[p] + 1]
          /\ last' = [op |-> "write", path |-> p]
    /\ UNCHANGED <<image_collection, doc_collection, calls, watcher>>

NextRace ==
    \/ \E i \in 1..2 : RaceCheck(i)
    \/ \E i \in 1..2 : RaceMetadata(i)
    \/ \E i \in 1..2 : RaceProcess(i)
    \/ \E i \in 1..2 : RaceUpsert(i)
    \/ RaceWrite

SpecRace == InitRace /\ [][NextRace]_vars

(***************************************************************************)
(* C19  Same-path race: under every interleaving of two concurrent ingest  *)
(* invocations for the same not-yet-indexed path, the collections hold at  *)
(* most one record for that id at every moment, the record's vector,       *)
(* metadata and text all come from one and the same invocation that        *)
(* reached its upsert, and once both invocations have ended there is       *)
(* exactly one record if at least one of them reached its upsert.          *)
(***************************************************************************)
RaceRows ==
    RowsOf(image_collection \cup doc_collection, FileId(Resolve(inv[1].path)))

\* the row is what invocation i handed to its upsert, and nothing else
RowOfInvocation(r, i) ==
    LET P == [embedding |-> inv[i].result.embedding,
              metadata |-> inv[i].metadata,
              text |-> inv[i].result.text_content]
    IN  /\ inv[i].outcome = "indexed"
        /\ IF Lower(Suffix(Resolve(inv[i].path))) \in IMAGE_EXTENSIONS
           THEN RowIsFrom(r, P, "Image: ", P.text.len)
           ELSE RowIsFrom(r, P, "Document: ", DOC_TEXT_LIMIT)
        /\ P.text.len > 0 => r.document.ver = P.text.ver

BothEnded == inv[1].pc = "done" /\ inv[2].pc = "done"

C19_SamePathRace ==
    /\ Cardinality(RaceRows) <= 1
    /\ Cardinality(image_collection \cup doc_collection) = Cardinality(RaceRows)
    /\ \A r \in RaceRows : \E i \in 1..2 : RowOfInvocation(r, i)
    /\ (BothEnded /\ \E i \in 1..2 : inv[i].outcome = "indexed") =>
          Cardinality(RaceRows) = 1

\* the statement without the condition: two ended invocations always leave
\* exactly one record
C19_AlwaysOneRecord ==
    BothEnded =>
        /\ Cardinality(RaceRows) = 1
        /\ \A r \in RaceRows : \E i \in 1..2 : RowOfInvocation(r, i)

\* Both invocations passed the dedup check before either wrote, both wrote,
\* and what they handed to the store differed in vector and in metadata.
C19_Witness ==
    /\ BothEnded
    /\ inv[1].outcome = "indexed"
    /\ inv[2].outcome = "indexed"
    /\ inv[1].result.embedding /= inv[2].result.embedding
    /\ DOMAIN inv[1].metadata /= DOMAIN inv[2].metadata
    /\ Cardinality(RaceRows) = 1

(***************************************************************************)
(* C20  Scope narrowing by intent: when intent parsing succeeds, the set   *)
(* of collections searched is a subset of the set the caller's scope       *)
(* implies; a caller scope of images never has the document collection     *)
(* searched and a caller scope of documents never has the image collection *)
(* searched.                                                               *)
(***************************************************************************)
CollectionsOf(scope) ==
    CASE scope = "all" -> {"images", "documents"}
      [] scope = "images" -> {"images"}
      [] scope = "documents" -> {"documents"}
      [] OTHER -> {}

C20_ScopeNarrowing ==
    (last.op = "search" /\ last.gemini \notin FailingParsers /\ ~last.out.raised) =>
        CollectionsOf(last.out.searched) \subseteq CollectionsOf(last.search_type)

(***************************************************************************)
(* SpecLifespan: the startup sequence of lifespan.  scan_existing_files    *)
(* runs on the starting thread; file_watcher.start() schedules the handler *)
(* and starts the observer, and only from then on does a change of the     *)
(* folder queue an event.  The folder is not changed while the application *)
(* starts.                                                                 *)
(***************************************************************************)
StartupTree ==
    {Dir(<<<<"n">>>>)} \cup EventEntries

InitLifespan ==
    /\ image_collection = {}
    /\ doc_collection = {}
    /\ disk = [p \in AbsPaths |-> 0]
    /\ last = NoCall
    /\ calls = 0
    /\ tree \in {StartupTree, {}}
    /\ pending = <<>>
    /\ delivered = <<>>
    /\ running = "idle"
    /\ inv = <<>>

\* step 6 of lifespan comes after step 5 has returned
MayStart_BeforeScan(state) == state \in {"idle", "done"}

MayStart(state) == state = "done"

\* file_watcher.start()
Start ==
    /\ MayStart(running)
    /\ running' = "watching"
    /\ last' = [op |-> "start"]
    /\ UNCHANGED <<image_collection, doc_collection, disk, calls,
                   tree, pending, delivered, inv>>

\* a change of the folder under a running observer
LiveEvent ==
    /\ running = "watching"
    /\ EmitEvent

NextLifespan ==
    \/ ScanStart
    \/ ScanVisit
    \/ ScanEnd
    \/ Start
    \/ LiveEvent
    \/ Dispatch

SpecLifespan == InitLifespan /\ [][NextLifespan]_vars

(***************************************************************************)
(* C21  Startup ordering: live monitoring starts only after the startup    *)
(* scan has run to completion; at that moment every supported file of the  *)
(* watched root has been passed to the callback exactly once, by the scan; *)
(* no call is made on behalf of an event before monitoring has started,    *)
(* and every later call is the dispatch of an event queued after the       *)
(* start, so a file that is not touched is never passed a second time.     *)
(***************************************************************************)
Calls(path, via) ==
    Cardinality({i \in 1..Len(delivered) :
                    delivered[i].path = path /\ delivered[i].via = via})

ScanComplete ==
    /\ \A p \in Matching : Calls(p, "scan") = 1 /\ Calls(p, "event") = 0
    /\ \A i \in 1..Len(delivered) :
          delivered[i].via = "scan" /\ delivered[i].path \in Matching

StartupOrdered ==
    /\ (running /= "watching" /\ running' = "watching") =>
          /\ running = "done"
          /\ pending = <<>>
          /\ ScanComplete
    /\ running /= "watching" =>
          /\ \A i \in 1..Len(delivered') : delivered'[i].via = "scan"
          /\ calls' = 0
    /\ running = "watching" =>
          /\ running' = "watching"
          /\ \A p \in Matching : Calls(p, "scan") = 1
          /\ delivered' /= delivered =>
                /\ pending /= <<>>
                /\ delivered' = Append(delivered,
                                       [path |-> Head(pending).src_path,
                                        raised |-> delivered'[Len(delivered')].raised,
                                        via |-> "event"])

C21_StartupOrdering == [][StartupOrdered]_vars

\* Monitoring has started, both supported files of the folder were passed
\* once by the scan, and one of them has since been modified and passed
\* again by its event.
C21_Witness ==
    /\ running = "watching"
    /\ tree = StartupTree
    /\ Len(delivered) = 3
    /\ delivered[1].via = "scan"
    /\ delivered[2].via = "scan"
    /\ delivered[3].via = "event"
    /\ delivered[3].path = delivered[1].path

(***************************************************************************)
(* SpecRetry: one file under the watched folder and the events for it.     *)
(* Every event ends in a call of ingest_file for the path (C12).  The      *)
(* embedding step may fail; calls counts the calls that ended without an   *)
(* embedding, and the step fails at most MaxCalls times ("the embedding    *)
(* eventually succeeds").  Weak fairness of the event step says that       *)
(* events for the path keep arriving.                                      *)
(***************************************************************************)
InitRetry ==
    /\ image_collection = {}
    /\ doc_collection = {}
    /\ \E target \in RacePaths : disk = [p \in AbsPaths |-> IF p = target THEN 1 ELSE 0]
    /\ last = NoCall
    /\ calls = 0
    /\ NoWatcher

RetryPath == CHOOSE p \in RacePaths : disk[p] > 0

\* a create / modify event for the file, or the startup scan, calls ingest_file
RetryIngest ==
    /\ \E ir \in BOOLEAN, dr \in BOOLEAN, run \in RunsFor(RetryPath) :
          LET done == IngestFile(image_collection, doc_collection, disk, RetryPath,
                                 ir, dr, run)
          IN  /\ done.outcome = "no_embedding" => calls < MaxCalls
              /\ calls' = IF done.outcome = "no_embedding" THEN calls + 1 ELSE calls
              /\ image_collection' = done.images
              /\ doc_collection' = done.docs
              /\ last' = [op |-> "ingest", path |-> RetryPath,
                          lookup_raised |-> (ir \/ dr),
                          outcome |-> done.outcome, upserts |-> done.upserts,
                          embedding |-> done.embedding]
    /\ UNCHANGED <<disk, watcher>>

SpecRetry == InitRetry /\ [][RetryIngest]_vars /\ WF_vars(RetryIngest)

(***************************************************************************)
(* C22  Retry after failed embedding: a call of ingest_file that ends      *)
(* because no embedding was produced leaves both collections as they were, *)
(* so an unindexed path stays unindexed; a call for an unindexed path is   *)
(* never skipped by the dedup check; and if events for the path keep       *)
(* arriving and the embedding eventually succeeds, the path is eventually  *)
(* indexed with an embedding.                                              *)
(***************************************************************************)
RetryStep ==
    last'.op = "ingest" =>
        /\ last'.outcome = "no_embedding" => Untouched
        /\ ~Present(Resolve(last'.path)) => last'.outcome /= "skipped"

IndexedWithEmbedding(file_path) ==
    \E r \in image_collection \cup doc_collection :
        r.id = FileId(file_path) /\ r.embedding /= <<>>

C22_RetryAfterFailedEmbedding ==
    /\ [][RetryStep]_vars
    /\ <>IndexedWithEmbedding(RetryPath)

\* The embedding failed MaxCalls times for the file; a later event indexed it.
C22_Witness ==
    /\ calls = MaxCalls
    /\ last.op = "ingest"
    /\ last.outcome = "indexed"
    /\ IndexedWithEmbedding(Resolve(last.path))

(***************************************************************************)
(* C23  No deletion: no operation removes a record: in every step the set  *)
(* of ids of each collection only grows and each count does not decrease;  *)
(* and once is_indexed(path) has answered true, the next is_indexed(path)  *)
(* answers true again.                                                     *)
(***************************************************************************)
RecordsOnlyGrow ==
    /\ IdsOf(image_collection) \subseteq IdsOf(image_collection')
    /\ IdsOf(doc_collection) \subseteq IdsOf(doc_collection')
    /\ Count(image_collection) <= Count(image_collection')
    /\ Count(doc_collection) <= Count(doc_collection')

StaysIndexed ==
    (/\ last.op = "is_file_indexed"
     /\ last.result
     /\ last'.op = "is_file_indexed"
     /\ last'.path = last.path) => last'.result

C23_NoDeletion == [][RecordsOnlyGrow /\ StaysIndexed]_vars

\* the part about the records alone (it holds for the store calls and for
\* ingestion with files created and modified)
C23_RecordsOnlyGrow == [][RecordsOnlyGrow]_vars

(***************************************************************************)
(* C24  Rename creates a new record: when a file under the watched root is *)
(* renamed to a new supported path while monitoring is running, the new    *)
(* path is passed to the ingestion callback (the one step that creates a   *)
(* record for it), once.                                                   *)
(***************************************************************************)
RenameIngested ==
    (/\ pending /= <<>>
     /\ pending' = Tail(pending)
     /\ Head(pending).type = "moved"
     /\ ~Head(pending).is_directory
     /\ AllowedPath(Head(pending).dest_path)) =>
        /\ Len(delivered') = Len(delivered) + 1
        /\ delivered'[Len(delivered')].path = Head(pending).dest_path

C24_RenameCreatesRecord == [][RenameIngested]_vars

(***************************************************************************)
(* SpecCommute: two upsert calls, from the watcher thread and from a       *)
(* request handler, on a store that may already hold rows.  Each call      *)
(* writes its row in one step, so the two threads leave the store as one   *)
(* of the two orders does.                                                 *)
(***************************************************************************)
UpsertCalls ==
    [kind : {"image", "document"}, path : StorePaths, payload : Payloads]

\* vector_store.upsert_image / vector_store.upsert_document on both collections
ApplyUpsert(store, call) ==
    IF call.kind = "image"
    THEN [images |-> UpsertImage(store.images, call.path, call.payload.embedding,
                                 call.payload.metadata, call.payload.text),
          docs |-> store.docs]
    ELSE [images |-> store.images,
          docs |-> UpsertDocument(store.docs, call.path, call.payload.embedding,
                                  call.payload.metadata, call.payload.text)]

InitCommute ==
    /\ \E P \in Payloads, held \in SUBSET StorePaths :
          /\ image_collection = {r \in UpsertImage(UpsertImage({}, "/w/a.JPG",
                                        P.embedding, P.metadata, P.text), "/w/c.txt",
                                        P.embedding, P.metadata, P.text) :
                                    \E p \in held : r.id = FileId(p)}
          /\ doc_collection = {}
    /\ disk = [p \in AbsPaths |-> 0]
    /\ last = NoCall
    /\ calls = 0
    /\ NoWatcher

TwoUpserts ==
    /\ last = NoCall
    /\ \E a \in UpsertCalls, b \in UpsertCalls :
          LET store == [images |-> image_collection, docs |-> doc_collection]
              ab == ApplyUpsert(ApplyUpsert(store, a), b)
              ba == ApplyUpsert(ApplyUpsert(store, b), a)
          IN  /\ \E done \in {ab, ba} :
                    /\ image_collection' = done.images
                    /\ doc_collection' = done.docs
              /\ last' = [op |-> "two_upserts", first |-> a, second |-> b,
                          had |-> store, ab |-> ab, ba |-> ba]
    /\ UNCHANGED <<disk, calls, watcher>>

SpecCommute == InitCommute /\ [][TwoUpserts]_vars

(***************************************************************************)
(* C25  Upserts to different ids commute: two upsert calls on different    *)
(* ids, in the same collection or in different collections, leave both     *)
(* collections with the same contents in either order, and so under either *)
(* outcome of their interleaving from two threads.                         *)
(***************************************************************************)
C25_UpsertsCommute ==
    (/\ last.op = "two_upserts"
     /\ FileId(last.first.path) /= FileId(last.second.path)) =>
        /\ last.ab = last.ba
        /\ image_collection = last.ab.images
        /\ doc_collection = last.ab.docs

\* Two upserts into the image collection on different ids with different
\* payloads, one of them replacing a row that was there.
C25_Witness ==
    /\ last.op = "two_upserts"
    /\ last.first.kind = "image"
    /\ last.second.kind = "image"
    /\ last.first.path /= last.second.path
    /\ last.first.payload /= last.second.payload
    /\ Count(last.had.images) = 1
    /\ Count(image_collection) = 2

(***************************************************************************)
(* C26  Stored text invariant: every stored record has a non-empty text;   *)
(* an image record's text is the supplied (OCR) text when that is          *)
(* non-empty and otherwise the placeholder built from the file name; a     *)
(* document record's text is never longer than the store's limit, and is a *)
(* prefix of the text supplied to upsert_document when that text is        *)
(* non-empty, and otherwise the placeholder built from the file name.      *)
(***************************************************************************)
IsPrefixOf(text, supplied) ==
    /\ text.kind = supplied.kind
    /\ text.of = supplied.of
    /\ text.ver = supplied.ver
    /\ text.len <= supplied.len

IsPlaceholder(text, label, metadata) ==
    /\ text.kind = "placeholder"
    /\ text.of = label \o MetaGet(metadata, "file_name", "")

TextStored ==
    /\ \A r \in image_collection \cup doc_collection : r.document.len > 0
    /\ \A r \in doc_collection : r.document.len <= DOC_TEXT_LIMIT

ImageTextRight ==
    last.op = "upsert_image" =>
        \A r \in RowsOf(image_collection, FileId(last.path)) :
            IF last.payload.text.len > 0
            THEN r.document = last.payload.text
            ELSE IsPlaceholder(r.document, "Image: ", last.payload.metadata)

TagKeys == {"auto_tags", "top_tag", "top_tag_score"}

ExifKeys == {"camera_make", "camera_model", "capture_date", "gps_latitude",
             "gps_longitude"}

EnrichedRow(r, run) ==
    /\ r.embedding /= <<>>
    /\ IF run.tags THEN TagKeys \subseteq DOMAIN r.metadata
       ELSE TagKeys \cap DOMAIN r.metadata = {}
    /\ ~run.exif => ExifKeys \cap DOMAIN r.metadata = {}
    /\ IF run.ocr THEN r.document.kind = "ocr" ELSE r.document.kind = "placeholder"
    /\ {"file_name", "file_path", "modified_date"} \subseteq DOMAIN r.metadata

EnrichmentOptional ==
    (/\ last'.op = "ingest"
     /\ Lower(Suffix(Resolve(last'.path))) \in IMAGE_EXTENSIONS
     /\ disk[Resolve(last'.path)] > 0
     /\ last'.outcome /= "skipped"
     /\ last'.run.embeds) =>
        /\ last'.outcome = "indexed"
        /\ last'.upserts = 1
        /\ doc_collection' = doc_collection
        /\ Cardinality(RowsOf(image_collection', FileId(Resolve(last'.path)))) = 1
        /\ \A r \in RowsOf(image_collection', FileId(Resolve(last'.path))) :
              EnrichedRow(r, last'.run)

InFlight(file_path) == <<[pc |-> "callback", path |-> file_path]>>

\* the observer thread takes the oldest event; the callback begins
BeginDispatch ==
    /\ running = "watching"
    /\ inv = <<>>
    /\ pending /= <<>>
    /\ inv' = IF DispatchEvent(Head(pending), FALSE).called
              THEN InFlight(Head(pending).src_path)
              ELSE <<>>
    /\ pending' = Tail(pending)
    /\ UNCHANGED <<image_collection, doc_collection, disk, last, calls,
                   tree, delivered, running>>

\* the callback returns or raises inside _handle
EndCallback ==
    /\ inv /= <<>>
    /\ \E raised \in BOOLEAN :
          /\ delivered' = Append(delivered, [path |-> inv[1].path, raised |-> raised,
                                             via |-> "event"])
          /\ running' = IF Propagates(raised) THEN "exited" ELSE running
    /\ inv' = <<>>
    /\ UNCHANGED <<image_collection, doc_collection, disk, last, calls,
                   tree, pending>>

\* stop(): self.observer.stop() has returned, self.observer.join() begins
StopCall ==
    /\ last = NoCall
    /\ last' = [op |-> "stop", pc |-> "joining", in_flight |-> (inv /= <<>>)]
    /\ UNCHANGED <<image_collection, doc_collection, disk, calls, watcher>>

\* the observer thread sees the stop request between two events and ends
ThreadExit ==
    /\ last.op = "stop"
    /\ running = "watching"
    /\ inv = <<>>
    /\ running' = "exited"
    /\ UNCHANGED <<image_collection, doc_collection, disk, last, calls,
                   tree, pending, delivered, inv>>

\* Thread.join() returns when the thread has ended
JoinReturns_NoJoin(state) == TRUE

JoinReturns(state) == state = "exited"

\* self.observer.join() returns, and stop() with it
StopReturn ==
    /\ last.op = "stop"
    /\ last.pc = "joining"
    /\ JoinReturns(running)
    /\ last' = [last EXCEPT !.pc = "returned"]
    /\ UNCHANGED <<image_collection, doc_collection, disk, calls, watcher>>

NextStop ==
    \/ EmitEvent
    \/ BeginDispatch
    \/ EndCallback
    \/ StopCall
    \/ ThreadExit
    \/ StopReturn

SpecStop == InitWatch /\ [][NextStop]_vars

(***************************************************************************)
(* C28  stop() ceases monitoring: stop() returns only when no callback     *)
(* invocation is in flight (one that was in flight has completed), and     *)
(* after stop() has returned no callback invocation begins or completes,   *)
(* whatever events are queued or arrive.                                   *)
(***************************************************************************)
StopReturned == last.op = "stop" /\ last.pc = "returned"

StopsRight ==
    /\ (~StopReturned /\ last'.op = "stop" /\ last'.pc = "returned") =>
          /\ inv = <<>>
          /\ running = "exited"
    /\ StopReturned =>
          /\ inv' = <<>>
          /\ delivered' = delivered
          /\ running' = "exited"

C28_StopCeasesMonitoring == [][StopsRight]_vars

\* stop() was called while a callback was in flight and has returned after
\* the callback completed; an event is still queued and is never dispatched.
C28_Witness ==
    /\ StopReturned
    /\ last.in_flight
    /\ Len(delivered) >= 1
    /\ pending /= <<>>
    /\ inv = <<>>

(***************************************************************************)
(* SpecStats: get_stats on the request thread while the watcher thread     *)
(* upserts.  get_stats builds its dict from four count() calls, evaluated  *)
(* in the order they are written; each is one step, and an upsert of the   *)
(* other thread (UpsertImageCall, UpsertDocumentCall) may come between any *)
(* two of them.  inv holds the locals of the get_stats call in flight.     *)
(***************************************************************************)
StatsBegin ==
    /\ inv = <<>>
    /\ inv' = <<[pc |-> "total_images", total_images |-> 0, total_documents |-> 0,
                 total_files |-> 0]>>
    /\ UNCHANGED <<image_collection, doc_collection, disk, last, calls,
                   tree, pending, delivered, running>>

\* one count() call of the dict display
StatsRead ==
    /\ inv /= <<>>
    /\ inv[1].pc /= "done"
    /\ inv' = CASE inv[1].pc = "total_images" ->
                     <<[inv[1] EXCEPT !.pc = "total_documents",
                                      !.total_images = Count(image_collection)]>>
                [] inv[1].pc = "total_documents" ->
                     <<[inv[1] EXCEPT !.pc = "total_files",
                                      !.total_documents = Count(doc_collection)]>>
                [] inv[1].pc = "total_files" ->
                     <<[inv[1] EXCEPT !.pc = "plus",
                                      !.total_files = Count(image_collection)]>>
                [] OTHER ->
                     <<[inv[1] EXCEPT !.pc = "done",
                                      !.total_files = inv[1].total_files
                                                        + Count(doc_collection)]>>
    /\ UNCHANGED <<image_collection, doc_collection, disk, last, calls,
                   tree, pending, delivered, running>>

NextStats ==
    \/ StatsBegin
    \/ StatsRead
    \/ UpsertImageCall
    \/ UpsertDocumentCall

SpecStats == InitStore /\ [][NextStats]_vars

(***************************************************************************)
(* C29  Consistent statistics: every value returned by stats() satisfies   *)
(* total_files = total_images + total_documents, also when the watcher     *)
(* thread upserts records while stats() runs.                              *)
(***************************************************************************)
C29_ConsistentStats ==
    (inv /= <<>> /\ inv[1].pc = "done") =>
        inv[1].total_files = inv[1].total_images + inv[1].total_documents

\* without a concurrent upsert the three numbers agree
C29_ConsistentWhenAlone ==
    last.op = "get_stats" =>
        last.result.total_files = last.result.total_images + last.result.total_documents

(***************************************************************************)
(* C30  Disjoint collections: after any sequence of ingest invocations no  *)
(* id is present in both the image collection and the document collection; *)
(* the rows of the image collection are those of paths with an image       *)
(* extension and the rows of the document collection those of paths with a *)
(* document extension; so a search over both collections never returns two *)
(* results with the same id, and total_files is the number of indexed      *)
(* paths.                                                                  *)
(***************************************************************************)
RowsHaveExtension(coll, extensions) ==
    \A r \in coll : \E p \in AbsPaths :
        r.id = FileId(p) /\ Lower(Suffix(p)) \in extensions

DistinctIds(results) ==
    \A i \in 1..Len(results) : \A j \in 1..Len(results) :
        i /= j => results[i].id /= results[j].id

C30_DisjointCollections ==
    /\ IdsOf(image_collection) \cap IdsOf(doc_collection) = {}
    /\ RowsHaveExtension(image_collection, IMAGE_EXTENSIONS)
    /\ RowsHaveExtension(doc_collection, DOCUMENT_EXTENSIONS)
    /\ GetStats(image_collection, doc_collection).total_files =
          Cardinality(IdsOf(image_collection) \cup IdsOf(doc_collection))
    /\ \A geom \in Geometries("cats") :
          DistinctIds(Search(image_collection, doc_collection, "cats", MaxTopK, "all",
                             GeminiOff, FALSE, FALSE, geom).response.results)

\* An image and a document are indexed, each in its own collection, and a
\* search over both returns the two of them.
C30_Witness ==
    /\ last.op = "ingest"
    /\ Count(image_collection) = 1
    /\ Count(doc_collection) = 1
    /\ \E geom \in Geometries("cats") :
          Len(Search(image_collection, doc_collection, "cats", MaxTopK, "all",
                     GeminiOff, FALSE, FALSE, geom).response.results) = 2

====
